---- MODULE Spec2Model ----
(***************************************************************************)
(* A model of JAX-GalSim's chunked photon-shooting loop (gsobject.py), of  *)
(* its Image / Bounds data model (image.py, bounds.py), of the composition *)
(* operators Convolution / Deconvolution (convolve.py) and of the render   *)
(* dispatcher drawImage (gsobject.py).                                     *)
(*                                                                         *)
(* SpecPhot  : one call of GSObject.drawPhot, from the resolution of the   *)
(*             chunk capacity to the return of the while loop.             *)
(* SpecImage : a program holding Image objects in two variables and        *)
(*             calling the constructor and the methods of Image on them.   *)
(* SpecConv  : a program holding surface-brightness objects in two         *)
(*             variables and composing them.                               *)
(* SpecDraw  : calls of GSObject.drawImage and drawFFT_makeKImage.         *)
(* SpecBounds: the algebra of Bounds (a & b, a + b).                       *)
(***************************************************************************)
EXTENDS Integers, Naturals, Sequences, FiniteSets, TLC

(***************************************************************************)
(* Bounds of the model.                                                    *)
(***************************************************************************)
MaxNtot == 6
MaxChunk == 3

\* Python's None for an optional integer argument (maxN=None).
NoneN == -1

Min2(a, b) == IF a <= b THEN a ELSE b
Max2(a, b) == IF a >= b THEN a ELSE b

\* ceil(a / b) for b >= 1 (\div rounds down)
CeilDiv(a, b) == (a + b - 1) \div b

(***************************************************************************)
(* Element types.                                                          *)
(***************************************************************************)
ValidDtypes ==
    {"int32", "float64", "uint16", "uint32", "int16", "float32",
     "complex64", "complex128"}

FloatDtypes == {"float32", "float64"}

VARIABLES
    \* ---- drawPhot / _draw_phot_while_loop ----
    pc,         \* "idle" | "start" | "loop" | "done"
    Ntot,       \* total number of photons to draw
    maxNarg,    \* the maxN argument of drawPhot (NoneN when not given)
    paSize,     \* photon_array._JAX_GALSIM_PHOTON_ARRAY_SIZE (NoneN when unset)
    gIsOne,     \* whether the flux factor g equals 1.0
    imDtype,    \* dtype of the image drawn into
    maxN,       \* the chunk capacity in force (NoneN: none)
    Nleft,      \* the loop's remaining count
    resume,     \* the loop's resume flag
    photons,    \* the photon buffer carried by the loop: [cap, num_keep]
    iters,      \* number of executions of _body_fun
    shots,      \* one record per call of _draw_phot_while_loop_shoot
    \* ---- Image objects ----
    heap,       \* the Image objects: object id -> [live, array, bounds, ...]
    ref,        \* the program's variables: slot -> object id (0: unbound)
    err,        \* the error raised by the last call ("ok" when none)
    call,       \* the last call: [name, slot, dst, b, rhs, arg]
    prov,       \* slot -> how its object was obtained and from which slot
    nops,       \* number of calls made
    \* ---- surface-brightness objects ----
    gvar,       \* the program's variables: slot -> GSObject value (NoGS: unbound)
    gcall,      \* the last call on GSObjects
    gerr,       \* the error it raised ("ok" when none)
    gwarn,      \* the warnings it emitted, in order
    gval,       \* the value it returned when that is not a GSObject
    gops,       \* number of calls made
    \* ---- drawImage ----
    draw,       \* the last call of drawImage / drawFFT_makeKImage and its outcome
    \* ---- Bounds algebra ----
    balg,       \* the last Bounds expression evaluated: [op, a, b, f, args, out, err]
    \* ---- BaseDeviate ----
    rnd,        \* the deviates, the variables that refer to them, the values drawn
    \* ---- functions ----
    fn          \* the last function evaluated: [op, arg, out]

photVars == <<pc, Ntot, maxNarg, paSize, gIsOne, imDtype, maxN, Nleft, resume,
              photons, iters, shots>>

imgVars == <<heap, ref, err, call, prov, nops>>

gsVars == <<gvar, gcall, gerr, gwarn, gval, gops>>

restVars == <<gsVars, draw, balg, rnd, fn>>

vars == <<photVars, imgVars, restVars>>

\* What the photon-loop actions leave alone.
PhotFrame == UNCHANGED <<imgVars, restVars>>

(***************************************************************************)
(* PhotonArray(N): a buffer of capacity N whose logical count starts at N. *)
(***************************************************************************)
PhotonArray(N) == [cap |-> N, num_keep |-> N]

\* GSObject.shoot(n_photons, rng): a new PhotonArray of n_photons entries.
ObjShoot(n) == PhotonArray(n)

\* Sensor.accumulate(photons, image, orig_center, resume=False)
SensorDefaultResume == FALSE

(***************************************************************************)
(* _draw_phot_while_loop_shoot(maxN, thisN, Ntot, ..., resume): shoots     *)
(* maxN photons, keeps thisN, scales the flux, accumulates.  Returns the   *)
(* photon buffer, the new resume flag and the record of what was done.     *)
(***************************************************************************)
\* photons = obj.shoot(maxN, rng): the buffer has maxN entries whatever thisN is.
ShootBufferThisN(cap, n) == ObjShoot(n)
ShootBuffer(cap, n) == ObjShoot(cap)

\* The resume argument of sensor.accumulate: passed for a float32/float64
\* image, left out ("omitted") when accumulating into the temporary ImageD.
ResumeArg(dt, res) ==
    IF dt \in FloatDtypes THEN (IF res THEN "true" ELSE "false") ELSE "omitted"

\* resume = True after accumulating into a float image; untouched otherwise.
NextResumeKeep(dt, res) == res
NextResume(dt, res) == IF dt \in FloatDtypes THEN TRUE ELSE res

DrawPhotWhileLoopShoot(cap, n, tot, g1, dt, res) ==
    LET shot == ShootBuffer(cap, n)
        kept == [shot EXCEPT !.num_keep = n]
        noscale == g1 /\ n = tot
    IN  [photons |-> kept,
         resume  |-> NextResume(dt, res),
         shot    |-> [cap      |-> kept.cap,
                      keep     |-> kept.num_keep,
                      thisN    |-> n,
                      nleft    |-> 0,
                      scaled   |-> ~noscale,
                      resume   |-> ResumeArg(dt, res),
                      temp     |-> dt \notin FloatDtypes]]

(***************************************************************************)
(* drawPhot: resolves the chunk capacity, then either draws everything in  *)
(* one call or enters the while loop.                                      *)
(***************************************************************************)
ResolveMaxN(m, pa) ==
    IF m # NoneN /\ pa # NoneN THEN Min2(m, pa)
    ELSE IF pa # NoneN /\ pa # 0 THEN pa ELSE m

DrawPhot ==
    /\ pc = "start"
    /\ LET cap == ResolveMaxN(maxNarg, paSize) IN
       IF cap = NoneN
       THEN LET r == DrawPhotWhileLoopShoot(Ntot, Ntot, Ntot, gIsOne, imDtype, FALSE)
            IN  /\ maxN' = NoneN
                /\ photons' = r.photons
                /\ resume' = r.resume
                /\ shots' = Append(shots, [r.shot EXCEPT !.nleft = Ntot])
                /\ Nleft' = 0
                /\ pc' = "done"
       ELSE /\ maxN' = cap
            /\ photons' = PhotonArray(cap)
            /\ resume' = FALSE
            /\ shots' = shots
            /\ Nleft' = Ntot
            /\ pc' = "loop"
    /\ UNCHANGED <<Ntot, maxNarg, paSize, gIsOne, imDtype, iters>>
    /\ PhotFrame

\* _cond_fun
CondFunOffByOne(nleft) == nleft > 1
CondFun(nleft) == nleft > 0

\* thisN = jnp.minimum(maxN, Nleft)
ThisNFull(cap, nleft) == cap
ThisN(cap, nleft) == Min2(cap, nleft)

\* Nleft = Nleft - thisN
NextNleft(nleft, n) == nleft - n

BodyFun ==
    /\ pc = "loop"
    /\ CondFun(Nleft)
    /\ LET n == ThisN(maxN, Nleft)
           r == DrawPhotWhileLoopShoot(maxN, n, Ntot, gIsOne, imDtype, resume)
       IN  /\ photons' = r.photons
           /\ resume' = r.resume
           /\ shots' = Append(shots, [r.shot EXCEPT !.nleft = Nleft])
           /\ Nleft' = NextNleft(Nleft, n)
           /\ iters' = iters + 1
    /\ UNCHANGED <<pc, Ntot, maxNarg, paSize, gIsOne, imDtype, maxN>>
    /\ PhotFrame

LoopExit ==
    /\ pc = "loop"
    /\ ~CondFun(Nleft)
    /\ pc' = "done"
    /\ UNCHANGED <<Ntot, maxNarg, paSize, gIsOne, imDtype, maxN, Nleft, resume,
                   photons, iters, shots>>
    /\ PhotFrame

(***************************************************************************)
(*                              Bounds (BoundsI)                           *)
(* A bounds is the record of its four extrema and its _isdefined flag.     *)
(***************************************************************************)
\* BoundsI(): _isdefined = False, all four fields 0.
BoundsI0 == [def |-> FALSE, xmin |-> 0, xmax |-> 0, ymin |-> 0, ymax |-> 0]

\* BoundsI(xmin, xmax, ymin, ymax): the fields are kept as given; the bounds
\* is undefined when xmin > xmax or ymin > ymax.
BoundsI4(x0, x1, y0, y1) ==
    [def |-> ~((x0 > x1) \/ (y0 > y1)),
     xmin |-> x0, xmax |-> x1, ymin |-> y0, ymax |-> y1]

IsDefined(b) == b.def

\* Bounds.includes(Bounds): all four sides are compared.
IncludesBoundsNoXmax(a, b) ==
    /\ IsDefined(a)
    /\ IsDefined(b)
    /\ a.xmin <= b.xmin
    /\ a.ymin <= b.ymin
    /\ a.ymax >= b.ymax

IncludesBounds(a, b) ==
    /\ IsDefined(a)
    /\ IsDefined(b)
    /\ a.xmin <= b.xmin
    /\ a.xmax >= b.xmax
    /\ a.ymin <= b.ymin
    /\ a.ymax >= b.ymax

\* Bounds.includes(x, y) and Bounds.includes(Position)
IncludesPos(a, x, y) ==
    /\ IsDefined(a)
    /\ a.xmin <= x /\ x <= a.xmax
    /\ a.ymin <= y /\ y <= a.ymax

\* BoundsI.numpyShape(): (rows, columns)
NumpyShape(b) ==
    IF IsDefined(b) THEN <<b.ymax - b.ymin + 1, b.xmax - b.xmin + 1>>
    ELSE <<0, 0>>

\* BoundsI._center: just up and to the right of the true center.
BoundsCenter(b) ==
    [x |-> b.xmin + ((b.xmax - b.xmin + 1) \div 2),
     y |-> b.ymin + ((b.ymax - b.ymin + 1) \div 2)]

\* Bounds.origin: (xmin, ymin)
BoundsOrigin(b) == [x |-> b.xmin, y |-> b.ymin]

\* Bounds.shift(delta): a new bounds built from the four shifted extrema.
BoundsShift(b, dx, dy) ==
    BoundsI4(b.xmin + dx, b.xmax + dx, b.ymin + dy, b.ymax + dy)

\* Bounds.__eq__: same extrema (all undefined bounds are equal).
BoundsEq(a, b) ==
    \/ ~IsDefined(a) /\ ~IsDefined(b)
    \/ /\ IsDefined(a) /\ IsDefined(b)
       /\ a.xmin = b.xmin /\ a.xmax = b.xmax /\ a.ymin = b.ymin /\ a.ymax = b.ymax

(***************************************************************************)
(*                        Element types and arrays                         *)
(* An array is [shape, dt, data]: data maps <<row, column>> to a value.    *)
(* The values of the model are integers (integer-valued for float and      *)
(* complex arrays).                                                        *)
(***************************************************************************)
IntDtypes == {"int16", "int32", "uint16", "uint32", "int64"}
UnsignedDtypes == {"uint16", "uint32"}
ComplexDtypes == {"complex64", "complex128"}

\* Image._alias_dtypes: Python's int, float, complex and numpy's int64 are
\* accepted and converted; the eight numpy types map to themselves.
AliasKeys == {"pyint", "pyfloat", "pycomplex", "int64"} \cup ValidDtypes

AliasDtype(d) ==
    CASE d = "pyint" -> "int32"
      [] d = "pyfloat" -> "float64"
      [] d = "pycomplex" -> "complex128"
      [] d = "int64" -> "int32"
      [] OTHER -> d

\* self._alias_dtypes.get(dtype, dtype)
AliasGet(d) == IF d \in AliasKeys THEN AliasDtype(d) ELSE d

DtypeBits(d) ==
    CASE d \in {"int16", "uint16"} -> 16
      [] d \in {"int32", "uint32", "float32"} -> 32
      [] d \in {"int64", "float64", "complex64"} -> 64
      [] OTHER -> 128

RECURSIVE Pow(_, _)
Pow(b, e) == IF e <= 0 THEN 1 ELSE b * Pow(b, e - 1)

\* The value of v stored with element type d: unsigned types wrap around.
CastVal(v, d) ==
    IF d \in UnsignedDtypes THEN v % Pow(2, DtypeBits(d)) ELSE v

Idx(nr, nc) == (0..(nr - 1)) \X (0..(nc - 1))

MkArr(nr, nc, d, F(_, _)) ==
    [shape |-> <<nr, nc>>, dt |-> d,
     data |-> [p \in Idx(nr, nc) |-> F(p[1], p[2])]]

\* jnp.zeros(shape, dtype)
Zeros(shape, d) == MkArr(shape[1], shape[2], d, LAMBDA r, c : 0)

\* array.astype(dtype)
Astype(a, d) ==
    MkArr(a.shape[1], a.shape[2], d, LAMBDA r, c : CastVal(a.data[<<r, c>>], d))

\* Elementwise map, keeping shape; the result has element type d.
MapArr(a, d, F(_)) ==
    MkArr(a.shape[1], a.shape[2], d, LAMBDA r, c : F(a.data[<<r, c>>]))

\* array[i1:i2, j1:j2]
Slice(a, i1, i2, j1, j2) ==
    LET lo(i, n) == IF i < 0 THEN Max2(i + n, 0) ELSE Min2(i, n)
        r1 == lo(i1, a.shape[1])
        r2 == lo(i2, a.shape[1])
        c1 == lo(j1, a.shape[2])
        c2 == lo(j2, a.shape[2])
        nr == Max2(r2 - r1, 0)
        nc == Max2(c2 - c1, 0)
    IN  MkArr(nr, nc, a.dt, LAMBDA r, c : a.data[<<r1 + r, c1 + c>>])

(***************************************************************************)
(* JAX's promotion of element types (64-bit types enabled).  The weakly    *)
(* typed Python scalars are "pyint", "pyfloat" and "pycomplex".            *)
(***************************************************************************)
IsWeak(d) == d \in {"pyint", "pyfloat", "pycomplex"}

DKind(d) ==
    CASE d \in {"uint16", "uint32"} -> "u"
      [] d \in {"int16", "int32", "int64", "pyint"} -> "i"
      [] d \in {"float32", "float64", "pyfloat"} -> "f"
      [] OTHER -> "c"

IntOfBits(n) == IF n <= 16 THEN "int16" ELSE IF n <= 32 THEN "int32" ELSE "int64"
UIntOfBits(n) == IF n <= 16 THEN "uint16" ELSE "uint32"
FloatOfBits(n) == IF n <= 32 THEN "float32" ELSE "float64"
ComplexOfBits(n) == IF n <= 64 THEN "complex64" ELSE "complex128"

PromoteStrong(a, b) ==
    LET ka == DKind(a)
        kb == DKind(b)
        na == DtypeBits(a)
        nb == DtypeBits(b)
    IN  CASE ka = "c" /\ kb = "c" -> ComplexOfBits(Max2(na, nb))
          [] ka = "c" /\ kb = "f" -> ComplexOfBits(Max2(na, 2 * nb))
          [] ka = "f" /\ kb = "c" -> ComplexOfBits(Max2(2 * na, nb))
          [] ka = "c" -> a
          [] kb = "c" -> b
          [] ka = "f" /\ kb = "f" -> FloatOfBits(Max2(na, nb))
          [] ka = "f" -> a
          [] kb = "f" -> b
          [] ka = "u" /\ kb = "u" -> UIntOfBits(Max2(na, nb))
          [] ka = "i" /\ kb = "i" -> IntOfBits(Max2(na, nb))
          [] ka = "u" -> IntOfBits(Max2(2 * na, nb))
          [] OTHER -> IntOfBits(Max2(na, 2 * nb))

\* The element type of (array of type a) op (operand of type b).
Promote(a, b) ==
    IF ~IsWeak(b) THEN PromoteStrong(a, b)
    ELSE CASE b = "pyint" -> a
           [] b = "pyfloat" ->
                IF DKind(a) \in {"f", "c"} THEN a ELSE "float64"
           [] OTHER ->
                IF DKind(a) = "c" THEN a
                ELSE IF a = "float32" THEN "complex64" ELSE "complex128"

\* The element type of a true division.
PromoteInexact(d) == IF DKind(d) \in {"f", "c"} THEN d ELSE "float64"

(***************************************************************************)
(*                                  Image                                  *)
(* An Image object is [live, array, bounds, dtype, wcs, isconst]: _array,  *)
(* _bounds, _dtype, wcs and _is_const.  A wcs is None (none = TRUE) or a   *)
(* pixel scale with the origin it has been shifted to.                     *)
(***************************************************************************)
RECURSIVE GCD(_, _)
GCD(a, b) == IF b = 0 THEN a ELSE GCD(b, a % b)

\* A pixel scale is the exact number (n / d) * pi^pi.
MkScale(n, d, p) == [n |-> n \div GCD(n, d), d |-> d \div GCD(n, d), pi |-> p]

NoWcs == [none |-> TRUE, scale |-> MkScale(1, 1, 0), ox |-> 0, oy |-> 0]

PixelScale(sc) == [none |-> FALSE, scale |-> sc, ox |-> 0, oy |-> 0]

\* wcs._isPixelScale: a pixel scale whose origin has not been moved.
IsPixelScale(w) == ~w.none /\ w.ox = 0 /\ w.oy = 0

\* jnp.pi / (No2 * scale)
FFTScale(No2, sc) == MkScale(sc.d, No2 * sc.n, 1 - sc.pi)

\* wcs.shiftOrigin(delta)
ShiftOrigin(w, dx, dy) == [w EXCEPT !.ox = @ + dx, !.oy = @ + dy]

MkImage(arr, b, d, w, c) ==
    [live |-> TRUE, array |-> arr, bounds |-> b, dtype |-> d, wcs |-> w,
     isconst |-> c]

\* No object.
NoObj ==
    [live |-> FALSE, array |-> Zeros(<<1, 1>>, "float32"), bounds |-> BoundsI0,
     dtype |-> "float32", wcs |-> NoWcs, isconst |-> FALSE]

\* The outcome of a method: the error raised ("ok" when none), the object
\* itself after the call, and the Image returned (hasret), which is the
\* object itself when alias holds.
Outcome(e, me, r) ==
    [err |-> e, self |-> me, hasret |-> TRUE, ret |-> r, alias |-> FALSE]

Mutated(e, me) ==
    [err |-> e, self |-> me, hasret |-> FALSE, ret |-> NoObj, alias |-> FALSE]

Raise(e, me) == Mutated(e, me)

\* Image._make_empty: a degenerate shape becomes one pixel.
MakeEmpty(shape, d) ==
    IF shape[1] * shape[2] = 0 THEN Zeros(<<1, 1>>, d) ELSE Zeros(shape, d)

\* array + scalar (init_value, fill): the scalar v has the weak type k.
AddScalar(a, v, k) ==
    LET d == Promote(a.dt, k) IN MapArr(a, d, LAMBDA x : CastVal(x + v, d))

(***************************************************************************)
(* Image.__init__.  The arguments are the record                           *)
(*   form     "size" | "bounds" | "array" | "image" | "none"               *)
(*   ncol, nrow, xmin, ymin           for "size" ("array": xmin, ymin)     *)
(*   bounds, hasb                     the bounds (keyword) and its presence*)
(*   array                            for "array"                          *)
(*   image                            for "image"                          *)
(*   dtype                            "None" or the requested dtype        *)
(*   hasiv, iv, ivk                   init_value: presence, value, type    *)
(*   wcs, const                       wcs (or scale) and make_const        *)
(***************************************************************************)
\* Image._get_xmin_ymin with the defaults of __init__: whether the array is
\* kept, and the lower corner.
GetXminYmin(a) ==
    IF a.hasb
    THEN IF IsDefined(a.bounds)
         THEN IF (a.bounds.xmax - a.bounds.xmin + 1 # a.array.shape[2])
                   \/ (a.bounds.ymax - a.bounds.ymin + 1 # a.array.shape[1])
              THEN [err |-> "GalSimIncompatibleValuesError", keep |-> FALSE,
                    xmin |-> 0, ymin |-> 0]
              ELSE [err |-> "ok", keep |-> TRUE,
                    xmin |-> a.bounds.xmin, ymin |-> a.bounds.ymin]
         ELSE [err |-> "ok", keep |-> FALSE, xmin |-> 0, ymin |-> 0]
    ELSE IF a.array.shape[2] = 0
         THEN [err |-> "ok", keep |-> FALSE, xmin |-> 0, ymin |-> 0]
         ELSE [err |-> "ok", keep |-> TRUE, xmin |-> a.xmin, ymin |-> a.ymin]

\* The dtype requested once _get_xmin_ymin has run: an array that is dropped
\* leaves its element type as the request when none was made.
RequestedDtype(a, keep) ==
    IF a.form = "array" /\ ~keep /\ a.dtype = "None" THEN a.array.dt
    ELSE a.dtype

\* The array path of "Figure out what dtype we want": the array converted,
\* or the error.
ArrayDtypeAny(arr, d) == [err |-> "ok", array |-> arr]

ArrayDtype(arr, d) ==
    IF d = "None"
    THEN IF arr.dt \in AliasKeys
         THEN [err |-> "ok", array |-> Astype(arr, AliasDtype(arr.dt))]
         ELSE IF arr.dt \notin ValidDtypes
              THEN [err |-> "GalSimValueError", array |-> arr]
              ELSE [err |-> "ok", array |-> arr]
    ELSE [err |-> "ok", array |-> Astype(arr, d)]

\* init_value: added to the zeros when given and not 0.
InitValue(a, arr) == IF a.hasiv /\ a.iv # 0 THEN AddScalar(arr, a.iv, a.ivk) ELSE arr

\* "Construct the image attribute": the Image built, per form of the call.
ImageInitBuild(a, xy, conv, sdt) ==
    IF a.form = "size"
    THEN Outcome("ok", NoObj,
           MkImage(InitValue(a, MakeEmpty(<<a.nrow, a.ncol>>, sdt)),
                   BoundsI4(a.xmin, a.xmin + a.ncol - 1, a.ymin, a.ymin + a.nrow - 1),
                   sdt, a.wcs, a.const))
    ELSE IF a.form = "bounds"
    THEN Outcome("ok", NoObj,
           MkImage(InitValue(a, MakeEmpty(NumpyShape(a.bounds), sdt)),
                   a.bounds, sdt, a.wcs, a.const))
    ELSE IF a.hasiv THEN Raise("GalSimIncompatibleValuesError", NoObj)
    ELSE IF a.form = "array" /\ xy.keep
    THEN Outcome("ok", NoObj,
           MkImage(conv.array,
                   BoundsI4(xy.xmin, xy.xmin + conv.array.shape[2] - 1,
                            xy.ymin, xy.ymin + conv.array.shape[1] - 1),
                   sdt, a.wcs, a.const))
    ELSE IF a.form = "image"
    THEN Outcome("ok", NoObj,
           MkImage(Astype(a.image.array, sdt), a.image.bounds, sdt,
                   IF a.wcs.none THEN a.image.wcs ELSE a.wcs, a.const))
    ELSE Outcome("ok", NoObj,
           MkImage(Zeros(<<1, 1>>, sdt), BoundsI0, sdt, a.wcs, a.const))

\* self._dtype once the array (if any) has been converted.
ImageInitConverted(a, xy, dt, conv) ==
    IF conv.err # "ok" THEN Raise(conv.err, NoObj)
    ELSE ImageInitBuild(a, xy, conv,
            IF a.form = "array" /\ xy.keep THEN conv.array.dt
            ELSE IF a.form = "image"
                 THEN (IF dt = "None" THEN a.image.dtype ELSE dt)
                 ELSE (IF dt # "None" THEN dt ELSE "float32"))

\* "Figure out what dtype we want": dt is the dtype requested, aliases
\* resolved.
ImageInitDtype(a, xy, dt) ==
    IF xy.err # "ok" THEN Raise(xy.err, NoObj)
    ELSE IF dt # "None" /\ dt \notin ValidDtypes THEN Raise("GalSimValueError", NoObj)
    ELSE ImageInitConverted(a, xy, dt,
            IF a.form = "array" /\ xy.keep THEN ArrayDtype(a.array, dt)
            ELSE [err |-> "ok", array |-> Zeros(<<1, 1>>, "float32")])

\* xy is the outcome of _get_xmin_ymin for an array argument.
ImageInitArray(a, xy) ==
    ImageInitDtype(a, xy, AliasGet(RequestedDtype(a, xy.keep)))

ImageInit(a) ==
    ImageInitArray(a, IF a.form = "array" THEN GetXminYmin(a)
                      ELSE [err |-> "ok", keep |-> FALSE,
                            xmin |-> a.xmin, ymin |-> a.ymin])

\* The arguments of Image(...) with every optional one at its default.
InitArgs ==
    [form |-> "none", ncol |-> 0, nrow |-> 0, xmin |-> 1, ymin |-> 1,
     bounds |-> BoundsI0, hasb |-> FALSE,
     array |-> Zeros(<<1, 1>>, "float32"), image |-> NoObj, dtype |-> "None",
     hasiv |-> FALSE, iv |-> 0, ivk |-> "pyint", wcs |-> NoWcs, const |-> FALSE]

\* Image(array, bounds=bounds, wcs=wcs, make_const=...): self.__class__(...)
ImageOfArray(arr, b, w, c) ==
    ImageInit([InitArgs EXCEPT !.form = "array", !.array = arr, !.bounds = b,
                               !.hasb = TRUE, !.wcs = w, !.const = c])

(***************************************************************************)
(* Image methods.  Each is a function of the object (me) and its arguments *)
(* giving an Outcome.                                                      *)
(***************************************************************************)
\* return self.__class__(...): the Image made by the constructor, or its error.
Returned(me, r) ==
    IF r.err = "ok" THEN Outcome("ok", me, r.ret) ELSE Raise(r.err, me)

\* Image.subImage(bounds) and im[bounds]
SubImage(me, b) ==
    IF ~IsDefined(me.bounds) THEN Raise("GalSimUndefinedBoundsError", me)
    ELSE IF ~IncludesBounds(me.bounds, b) THEN Raise("GalSimBoundsError", me)
    ELSE Returned(me,
            ImageOfArray(Slice(me.array, b.ymin - me.bounds.ymin,
                               b.ymax - me.bounds.ymin + 1,
                               b.xmin - me.bounds.xmin,
                               b.xmax - me.bounds.xmin + 1),
                         b, me.wcs, FALSE))

\* array.at[i1:i2, j1:j2].set(rhs): the values take the array's element type.
SetSlice(a, i1, j1, rhs) ==
    MkArr(a.shape[1], a.shape[2], a.dt,
          LAMBDA r, c :
             IF <<r - i1, c - j1>> \in DOMAIN rhs.data
             THEN CastVal(rhs.data[<<r - i1, c - j1>>], a.dt)
             ELSE a.data[<<r, c>>])

\* Image.setSubImage(bounds, rhs) and im[bounds] = rhs
SetSubImage(me, b, rhs) ==
    IF me.isconst THEN Raise("GalSimImmutableError", me)
    ELSE IF ~IsDefined(me.bounds) THEN Raise("GalSimUndefinedBoundsError", me)
    ELSE IF ~IncludesBounds(me.bounds, b) THEN Raise("GalSimBoundsError", me)
    ELSE IF NumpyShape(b) # NumpyShape(rhs.bounds)
         THEN Raise("GalSimIncompatibleValuesError", me)
    ELSE Mutated("ok",
            [me EXCEPT !.array = SetSlice(me.array, b.ymin - me.bounds.ymin,
                                          b.xmin - me.bounds.xmin, rhs.array)])

\* Image.copyFrom(rhs): self._array = rhs._array
CopyFromArray(me, rhs) == rhs.array

CopyFrom(me, rhs) ==
    IF me.isconst THEN Raise("GalSimImmutableError", me)
    ELSE IF NumpyShape(me.bounds) # NumpyShape(rhs.bounds)
         THEN Raise("GalSimIncompatibleValuesError", me)
    ELSE Mutated("ok", [me EXCEPT !.array = CopyFromArray(me, rhs)])

\* Image._shift(delta)
ShiftImage(me, dx, dy) ==
    [me EXCEPT !.bounds = BoundsShift(me.bounds, dx, dy),
               !.wcs = IF me.wcs.none THEN me.wcs ELSE ShiftOrigin(me.wcs, dx, dy)]

\* Image.shift(dx, dy)
Shift(me, dx, dy) == Mutated("ok", ShiftImage(me, dx, dy))

\* Image.setCenter(xcen, ycen): the center of an undefined bounds is an error.
SetCenter(me, x, y) ==
    IF ~IsDefined(me.bounds) THEN Raise("GalSimUndefinedBoundsError", me)
    ELSE Mutated("ok", ShiftImage(me, x - BoundsCenter(me.bounds).x,
                                      y - BoundsCenter(me.bounds).y))

\* Image.setOrigin(x0, y0)
SetOrigin(me, x, y) ==
    Mutated("ok", ShiftImage(me, x - BoundsOrigin(me.bounds).x,
                                 y - BoundsOrigin(me.bounds).y))

\* Image.view(dtype=, make_const=, origin=, center=).  v.mode is "none",
\* "origin" or "center"; v.dtype is "None" or the dtype asked for.  The Image
\* returned is a new object.
ViewResultSelf(me, r) == [Outcome("ok", me, me) EXCEPT !.alias = TRUE]
ViewResult(me, r) == Outcome("ok", me, r)

\* "Make the return Image"
ViewImage(me, v, dt) ==
    IF ~IsDefined(me.bounds)
    THEN ImageInit([InitArgs EXCEPT !.wcs = me.wcs, !.dtype = dt, !.const = v.const])
    ELSE ImageOfArray(IF dt # me.array.dt THEN Astype(me.array, dt) ELSE me.array,
                      me.bounds, me.wcs, v.const)

\* "Update the origin if requested"
ViewMoved(me, v, r) ==
    IF ~IsDefined(me.bounds) \/ v.mode = "none" THEN Mutated("ok", r)
    ELSE IF v.mode = "origin" THEN SetOrigin(r, v.x, v.y)
    ELSE SetCenter(r, v.x, v.y)

ViewReturn(me, moved) ==
    IF moved.err # "ok" THEN Raise(moved.err, me) ELSE ViewResult(me, moved.self)

ViewMade(me, v, r) ==
    IF r.err # "ok" THEN Raise(r.err, me) ELSE ViewReturn(me, ViewMoved(me, v, r.ret))

View(me, v) ==
    ViewMade(me, v, ViewImage(me, v, IF v.dtype # "None" THEN v.dtype ELSE me.dtype))

ViewArgs == [dtype |-> "None", const |-> FALSE, mode |-> "none", x |-> 0, y |-> 0]

\* Image.copy()
Copy(me) == Returned(me, ImageOfArray(me.array, me.bounds, me.wcs, FALSE))

\* array.at[y - ymin, x - xmin].set(value) / .add(value)
SetAt(a, r0, c0, v) ==
    MkArr(a.shape[1], a.shape[2], a.dt,
          LAMBDA r, c : IF r = r0 /\ c = c0 THEN CastVal(v, a.dt)
                        ELSE a.data[<<r, c>>])

\* Image._setValue: the new array is bound to this object alone.
SetValueArray(me, x, y, v) ==
    SetAt(me.array, y - me.bounds.ymin, x - me.bounds.xmin, v)

\* Image.setValue(x, y, value)
SetValue(me, x, y, v) ==
    IF me.isconst THEN Raise("GalSimImmutableError", me)
    ELSE IF ~IsDefined(me.bounds) THEN Raise("GalSimUndefinedBoundsError", me)
    ELSE IF ~IncludesPos(me.bounds, x, y) THEN Raise("GalSimBoundsError", me)
    ELSE Mutated("ok", [me EXCEPT !.array = SetValueArray(me, x, y, v)])

\* Image.addValue(x, y, value)
AddValue(me, x, y, v) ==
    IF me.isconst THEN Raise("GalSimImmutableError", me)
    ELSE IF ~IsDefined(me.bounds) THEN Raise("GalSimUndefinedBoundsError", me)
    ELSE IF ~IncludesPos(me.bounds, x, y) THEN Raise("GalSimBoundsError", me)
    ELSE Mutated("ok",
            [me EXCEPT !.array =
                SetAt(me.array, y - me.bounds.ymin, x - me.bounds.xmin,
                      me.array.data[<<y - me.bounds.ymin, x - me.bounds.xmin>>] + v)])

\* Image._fill(value): jnp.zeros_like(self._array) + value
FillArray(a, v, k) == AddScalar(Zeros(a.shape, a.dt), v, k)

\* Image.fill(value)
Fill(me, v, k) ==
    IF me.isconst THEN Raise("GalSimImmutableError", me)
    ELSE IF ~IsDefined(me.bounds) THEN Raise("GalSimUndefinedBoundsError", me)
    ELSE Mutated("ok", [me EXCEPT !.array = FillArray(me.array, v, k)])

\* Image.setZero()
SetZero(me) ==
    IF me.isconst THEN Raise("GalSimImmutableError", me)
    ELSE Mutated("ok", [me EXCEPT !.array = FillArray(me.array, 0, "pyint")])

\* 1/x brought back to the element type, 0 staying 0.  Exact for integer
\* types and for the values -1, 0, 1.
InvertVal(x) == IF x = 1 THEN 1 ELSE IF x = 0 - 1 THEN 0 - 1 ELSE 0

\* Image.invertSelf()
InvertSelf(me) ==
    IF me.isconst THEN Raise("GalSimImmutableError", me)
    ELSE IF ~IsDefined(me.bounds) THEN Raise("GalSimUndefinedBoundsError", me)
    ELSE Mutated("ok",
            [me EXCEPT !.array =
                MapArr(me.array, me.array.dt, LAMBDA x : CastVal(InvertVal(x), me.array.dt))])

\* Image.replaceNegative(replace_value)
ReplaceNegative(me, rv) ==
    IF me.isconst THEN Raise("GalSimImmutableError", me)
    ELSE Mutated("ok",
            [me EXCEPT !.array =
                MapArr(me.array, me.array.dt,
                       LAMBDA x : IF x < 0 THEN CastVal(rv, me.array.dt) ELSE x)])

\* Image.resize(bounds)
Resize(me, b) ==
    IF me.isconst THEN Raise("GalSimImmutableError", me)
    ELSE Mutated("ok", [me EXCEPT !.array = MakeEmpty(NumpyShape(b), me.dtype),
                                  !.bounds = b])

(***************************************************************************)
(* wrap.  wrap_nonhermitian(array, xmin, ymin, nxwrap, nywrap) adds every   *)
(* pixel of the array into the pixel of the window [ymin, ymin + nywrap) x *)
(* [xmin, xmin + nxwrap) it is congruent to; the pixels outside the window *)
(* keep their values.  The window lies inside the array.                   *)
(***************************************************************************)
RECURSIVE SumOver(_, _)
SumOver(S, f) ==
    IF S = {} THEN 0
    ELSE LET p == CHOOSE q \in S : TRUE IN f[p] + SumOver(S \ {p}, f)

WrapNonhermitian(a, xmin, ymin, nx, ny) ==
    MkArr(a.shape[1], a.shape[2], a.dt,
          LAMBDA r, c :
             IF r >= ymin /\ r < ymin + ny /\ c >= xmin /\ c < xmin + nx
             THEN CastVal(SumOver({q \in DOMAIN a.data :
                                     /\ (q[1] - r) % ny = 0
                                     /\ (q[2] - c) % nx = 0}, a.data), a.dt)
             ELSE a.data[<<r, c>>])

\* Image.wrap(bounds) and Image._wrap(bounds, False, False)
Wrap(me, b) ==
    SubImage([me EXCEPT !.array =
                 WrapNonhermitian(me.array, b.xmin - me.bounds.xmin,
                                  b.ymin - me.bounds.ymin,
                                  b.xmax - b.xmin + 1, b.ymax - b.ymin + 1)], b)

(***************************************************************************)
(* Arithmetic.  The operand is [isimg, array, v, k]: another Image's array *)
(* or the scalar v of Python type k.                                       *)
(***************************************************************************)
ImageOperand(im) == [isimg |-> TRUE, array |-> im.array, v |-> 0, k |-> "pyint"]
ScalarOperand(v, k) ==
    [isimg |-> FALSE, array |-> Zeros(<<1, 1>>, "float32"), v |-> v, k |-> k]

OperandDtype(other) == IF other.isimg THEN other.array.dt ELSE other.k

RECURSIVE BitOp(_, _, _)
BitOp(op, x, y) ==
    IF x = 0 /\ y = 0 THEN 0
    ELSE LET bx == x % 2
             by == y % 2
             bit == CASE op = "and" -> IF bx = 1 /\ by = 1 THEN 1 ELSE 0
                      [] op = "or" -> IF bx = 1 \/ by = 1 THEN 1 ELSE 0
                      [] OTHER -> IF bx # by THEN 1 ELSE 0
         IN  bit + 2 * BitOp(op, x \div 2, y \div 2)

\* The values the model computes exactly: exact quotients, positive
\* divisors, natural exponents, natural operands of the bitwise operators.
OpOk(op, x, y) ==
    CASE op = "div" -> y > 0 /\ x % y = 0
      [] op \in {"floordiv", "mod"} -> y > 0
      [] op = "pow" -> y >= 0
      [] op \in {"and", "xor", "or"} -> x >= 0 /\ y >= 0
      [] OTHER -> TRUE

OpVal(op, x, y) ==
    CASE op = "add" -> x + y
      [] op = "sub" -> x - y
      [] op = "mul" -> x * y
      [] op = "div" -> x \div y
      [] op = "floordiv" -> x \div y
      [] op = "mod" -> x % y
      [] op = "pow" -> Pow(x, y)
      [] OTHER -> BitOp(op, x, y)

OpDtype(op, a, b) ==
    IF op = "div" THEN PromoteInexact(Promote(a, b)) ELSE Promote(a, b)

OperandAt(other, p) == IF other.isimg THEN other.array.data[p] ELSE other.v

\* self.array <op> a
ArithArray(op, a, other) ==
    LET d == OpDtype(op, a.dt, OperandDtype(other))
    IN  MkArr(a.shape[1], a.shape[2], d,
              LAMBDA r, c : CastVal(OpVal(op, a.data[<<r, c>>],
                                          OperandAt(other, <<r, c>>)), d))

ArithOk(op, a, other) ==
    \A p \in DOMAIN a.data : OpOk(op, a.data[p], OperandAt(other, p))

IsInteger(a) == DKind(a.dt) \in {"i", "u"}

\* check_image_consistency(im1, im2, integer)
CheckImageConsistency(im1, other, integer) ==
    IF integer /\ ~IsInteger(im1.array) THEN "GalSimValueError"
    ELSE IF other.isimg /\ im1.array.shape # other.array.shape
         THEN "GalSimIncompatibleValuesError"
    ELSE IF other.isimg /\ integer /\ ~IsInteger(other.array) THEN "GalSimValueError"
    ELSE "ok"

\* dt == self.array.dtype, dt being a.dtype or type(a)
SameDtype(other, d) ==
    IF other.isimg THEN other.array.dt = d
    ELSE \/ other.k = "pyfloat" /\ d = "float64"
         \/ other.k = "pycomplex" /\ d = "complex128"
         \/ other.k = "pyint" /\ d = "int64"

\* The in-place operators that bring the result back to the array's type.
InPlaceCast(me, op, other, integer) ==
    LET e == CheckImageConsistency(me, other, integer)
        raw == ArithArray(op, me.array, other)
    IN  IF e # "ok" THEN Raise(e, me)
        ELSE Mutated("ok",
               [me EXCEPT !.array = IF SameDtype(other, me.array.dt) THEN raw
                                    ELSE Astype(raw, me.array.dt)])

\* The in-place operators that keep the result as computed.
InPlaceRaw(me, op, other) ==
    LET e == CheckImageConsistency(me, other, TRUE)
    IN  IF e # "ok" THEN Raise(e, me)
        ELSE Mutated("ok", [me EXCEPT !.array = ArithArray(op, me.array, other)])

Image_iadd(me, other) == InPlaceCast(me, "add", other, FALSE)
Image_isub(me, other) == InPlaceCast(me, "sub", other, FALSE)
Image_imul(me, other) == InPlaceCast(me, "mul", other, FALSE)

Image_idiv(me, other) ==
    LET e == CheckImageConsistency(me, other, FALSE)
        raw == ArithArray("div", me.array, other)
    IN  IF e # "ok" THEN Raise(e, me)
        ELSE Mutated("ok",
               [me EXCEPT !.array =
                   IF SameDtype(other, me.array.dt) /\ ~IsInteger(me.array) THEN raw
                   ELSE Astype(raw, me.array.dt)])

Image_ifloordiv(me, other) == InPlaceCast(me, "floordiv", other, TRUE)
Image_imod(me, other) == InPlaceCast(me, "mod", other, TRUE)

Image_ipow(me, other) ==
    IF other.isimg \/ other.k \notin {"pyint", "pyfloat"} THEN Raise("TypeError", me)
    ELSE Mutated("ok", [me EXCEPT !.array = ArithArray("pow", me.array, other)])

Image_iand(me, other) == InPlaceRaw(me, "and", other)
Image_ixor(me, other) == InPlaceRaw(me, "xor", other)
Image_ior(me, other) == InPlaceRaw(me, "or", other)

InPlaceOps ==
    {"iadd", "isub", "imul", "idiv", "ifloordiv", "imod", "ipow", "iand", "ixor", "ior"}

\* The operator's name without the leading "i".
OpOf(name) ==
    CASE name = "iadd" -> "add" [] name = "isub" -> "sub" [] name = "imul" -> "mul"
      [] name = "idiv" -> "div" [] name = "ifloordiv" -> "floordiv"
      [] name = "imod" -> "mod" [] name = "ipow" -> "pow" [] name = "iand" -> "and"
      [] name = "ixor" -> "xor" [] OTHER -> "or"

InPlace(name, me, other) ==
    CASE name = "iadd" -> Image_iadd(me, other)
      [] name = "isub" -> Image_isub(me, other)
      [] name = "imul" -> Image_imul(me, other)
      [] name = "idiv" -> Image_idiv(me, other)
      [] name = "ifloordiv" -> Image_ifloordiv(me, other)
      [] name = "imod" -> Image_imod(me, other)
      [] name = "ipow" -> Image_ipow(me, other)
      [] name = "iand" -> Image_iand(me, other)
      [] name = "ixor" -> Image_ixor(me, other)
      [] OTHER -> Image_ior(me, other)

\* Image_add, Image_sub, Image_mul, Image_div: a new Image of the result.
ImageBinary(me, opn, other) ==
    IF CheckImageConsistency(me, other, FALSE) # "ok"
    THEN Raise(CheckImageConsistency(me, other, FALSE), me)
    ELSE Returned(me, ImageOfArray(ArithArray(opn, me.array, other), me.bounds,
                                   me.wcs, FALSE))

(***************************************************************************)
(* Fourier transforms.  The values of a transform are not computed: the    *)
(* arrays below have the shape and the element type of the transform and   *)
(* hold zeros.                                                             *)
(***************************************************************************)
\* jnp.fft.fftshift(jnp.fft.rfft2(jnp.fft.fftshift(a)), axes=0)
Rfft2(a) ==
    Zeros(<<a.shape[1], (a.shape[2] \div 2) + 1>>,
          IF a.dt = "float32" THEN "complex64" ELSE "complex128")

\* jnp.fft.fftshift(jnp.fft.irfft2(jnp.fft.fftshift(a, axes=0)))
Irfft2(a) ==
    Zeros(<<a.shape[1], 2 * (a.shape[2] - 1)>>,
          IF a.dt \in {"float32", "complex64"} THEN "float32" ELSE "float64")

\* wrap_hermitian_x: the array keeps its shape and element type.
WrapHermitianX(a) == Zeros(a.shape, a.dt)

\* Image(bounds, dtype=dtype, init_value=0) with image[b] = self[b]
PaddedSet(me, b, z, part) ==
    IF z.err # "ok" THEN Raise(z.err, me)
    ELSE IF part.err # "ok" THEN Raise(part.err, me)
    ELSE SetSubImage(z.ret, b, part.ret)

PaddedImage(me, full, b) ==
    PaddedSet(me, b,
              ImageInit([InitArgs EXCEPT !.form = "bounds", !.bounds = full,
                                         !.hasb = TRUE, !.dtype = me.dtype,
                                         !.hasiv = TRUE, !.iv = 0]),
              SubImage(me, b))

FFTNo2(b) == Max2(Max2(0 - b.xmin, b.xmax + 1), Max2(0 - b.ymin, b.ymax + 1))

\* out *= dx * dx; out.setOrigin(0, -No2); return out
FFTReturn(me, No2, scaled) ==
    IF scaled.err # "ok" THEN Raise(scaled.err, me)
    ELSE Outcome("ok", me, SetOrigin(scaled.self, 0, 0 - No2).self)

\* out._array = fftshift(rfft2(fftshift(ximage.array)), axes=0)
FFTOut(me, No2, ximage, out) ==
    IF ximage.err # "ok" THEN Raise(ximage.err, me)
    ELSE IF out.err # "ok" THEN Raise(out.err, me)
    ELSE FFTReturn(me, No2,
            Image_imul([out.ret EXCEPT !.array = Rfft2(ximage.self.array)],
                       ScalarOperand(1, "pyfloat")))

FFTTransform(me, No2, full_bounds) ==
    FFTOut(me, No2,
           IF BoundsEq(me.bounds, full_bounds) THEN Mutated("ok", me)
           ELSE PaddedImage(me, full_bounds, me.bounds),
           ImageInit([InitArgs EXCEPT !.form = "bounds",
                        !.bounds = BoundsI4(0, No2, 0 - No2, No2 - 1),
                        !.hasb = TRUE, !.dtype = "complex128",
                        !.wcs = PixelScale(FFTScale(No2, me.wcs.scale))]))

\* Image.calculate_fft()
CalculateFFT(me) ==
    IF ~IsDefined(me.bounds) THEN Raise("GalSimUndefinedBoundsError", me)
    ELSE IF me.wcs.none \/ ~IsPixelScale(me.wcs) THEN Raise("GalSimError", me)
    ELSE IF me.dtype \in ComplexDtypes THEN Raise("GalSimNotImplementedError", me)
    ELSE FFTTransform(me, FFTNo2(me.bounds),
                      BoundsI4(0 - FFTNo2(me.bounds), FFTNo2(me.bounds) - 1,
                               0 - FFTNo2(me.bounds), FFTNo2(me.bounds) - 1))

InverseNo2(b) == Max2(Max2(b.xmax, 0 - b.ymin), b.ymax)

\* kimage.wrap(target_bounds, hermitian="x")
WrapHermX(km, b) ==
    IF km.bounds.xmin # 0 \/ b.xmin # 0 THEN Raise("GalSimIncompatibleValuesError", km)
    ELSE SubImage([km EXCEPT !.array = WrapHermitianX(km.array)], b)

\* out *= (dk * No2 / pi) ** 2; out.setCenter(0, 0); return out
InverseReturn(me, scaled) ==
    IF scaled.err # "ok" THEN Raise(scaled.err, me)
    ELSE Returned(me, [err |-> SetCenter(scaled.self, 0, 0).err,
                       ret |-> SetCenter(scaled.self, 0, 0).self])

\* out = out_extra.subImage(BoundsI(-No2, No2 - 1, -No2, No2 - 1))
InverseCut(me, out) ==
    IF out.err # "ok" THEN Raise(out.err, me)
    ELSE InverseReturn(me, Image_imul(out.ret, ScalarOperand(1, "pyfloat")))

\* out_extra._array = fftshift(irfft2(fftshift(kimage.array, axes=0)))
InverseOut(me, No2, kimage, out_extra) ==
    IF kimage.err # "ok" THEN Raise(kimage.err, me)
    ELSE IF out_extra.err # "ok" THEN Raise(out_extra.err, me)
    ELSE InverseCut(me,
            SubImage([out_extra.ret EXCEPT !.array = Irfft2(kimage.ret.array)],
                     BoundsI4(0 - No2, No2 - 1, 0 - No2, No2 - 1)))

\* kimage = kimage.wrap(target_bounds, hermitian="x")
InverseWrapped(padded, target_bounds) ==
    IF padded.err # "ok" THEN padded ELSE WrapHermX(padded.self, target_bounds)

InverseTransform(me, No2, target_bounds) ==
    InverseOut(me, No2,
               IF BoundsEq(me.bounds, target_bounds) THEN Outcome("ok", me, me)
               ELSE InverseWrapped(
                       PaddedImage(me, BoundsI4(0, No2, 0 - No2, No2),
                                   BoundsI4(0, me.bounds.xmax, me.bounds.ymin,
                                            me.bounds.ymax)),
                       target_bounds),
               ImageInit([InitArgs EXCEPT !.form = "bounds",
                            !.bounds = BoundsI4(0 - No2, No2 + 1, 0 - No2, No2 - 1),
                            !.hasb = TRUE, !.dtype = "pyfloat",
                            !.wcs = PixelScale(FFTScale(No2, me.wcs.scale))]))

\* Image.calculate_inverse_fft()
CalculateInverseFFT(me) ==
    IF ~IsDefined(me.bounds) THEN Raise("GalSimUndefinedBoundsError", me)
    ELSE IF me.wcs.none \/ ~IsPixelScale(me.wcs) THEN Raise("GalSimError", me)
    ELSE IF ~IncludesPos(me.bounds, 0, 0) THEN Raise("GalSimBoundsError", me)
    ELSE InverseTransform(me, InverseNo2(me.bounds),
                          BoundsI4(0, InverseNo2(me.bounds),
                                   0 - InverseNo2(me.bounds),
                                   InverseNo2(me.bounds) - 1))

(***************************************************************************)
(* The program's variables and objects.  Image objects live in the heap;   *)
(* a variable (slot) is bound to an object id.  An array, a bounds and a   *)
(* wcs are values: every write of the code rebinds the field of one object *)
(* (self._array = ..., self._bounds = ..., self.wcs = ...), none changes a *)
(* value in place.                                                         *)
(***************************************************************************)
Slot == {1, 2}
ObjId == {1, 2}

Deref(t) == IF ref[t] = 0 THEN NoObj ELSE heap[ref[t]]

\* The constructor's arguments a call record keeps: the form of the call,
\* the dtype requested and the element type of the array given.
NoArg == [form |-> "none", dtype |-> "None", adt |-> "None"]
CtorArg(a) ==
    [form |-> a.form, dtype |-> a.dtype,
     adt |-> IF a.form = "array" THEN a.array.dt ELSE "None"]

NoCall ==
    [name |-> "none", slot |-> 0, dst |-> 0, b |-> BoundsI0, rhs |-> 0, arg |-> NoArg]
NoProv == [how |-> "none", src |-> 0]

\* The least object id no variable other than d is bound to.
Fresh(d) ==
    CHOOSE i \in ObjId :
        /\ \A t \in Slot \ {d} : ref[t] # i
        /\ \A j \in ObjId : (\A t \in Slot \ {d} : ref[t] # j) => i <= j

\* Objects no variable is bound to are collected.
GC(h, r) == [i \in ObjId |-> IF \E t \in Slot : r[t] = i THEN h[i] ELSE NoObj]

\* At most MaxOps calls are made.
MaxOps == 2

CanCall == nops < MaxOps

\* The call `name` on the object of slot s, its returned Image bound to
\* slot d: out is the Outcome of the method.
ApplyWith(name, s, d, b, o, ar, out) ==
    LET ret == out.err = "ok" /\ out.hasret
        h1 == IF out.self.live THEN [heap EXCEPT ![ref[s]] = out.self] ELSE heap
        id == IF ~ret THEN ref[d] ELSE IF out.alias THEN ref[s] ELSE Fresh(d)
        r2 == [ref EXCEPT ![d] = id]
        h2 == IF ret /\ ~out.alias THEN [h1 EXCEPT ![id] = out.ret] ELSE h1
    IN  /\ nops' = nops + 1
        /\ err' = out.err
        /\ call' = [name |-> name, slot |-> s, dst |-> IF ret THEN d ELSE s,
                  b |-> b, rhs |-> o, arg |-> ar]
        /\ ref' = r2
        /\ heap' = GC(h2, r2)
        /\ prov' = IF ~ret THEN prov
                   ELSE [t \in Slot |->
                           IF t = d THEN [how |-> name, src |-> IF d # s THEN s ELSE 0]
                           ELSE IF prov[t].src = d THEN [prov[t] EXCEPT !.src = 0]
                           ELSE prov[t]]
        /\ UNCHANGED <<photVars, restVars>>

Apply(name, s, d, b, o, out) == ApplyWith(name, s, d, b, o, NoArg, out)

(***************************************************************************)
(* The arguments the program calls with.                                   *)
(***************************************************************************)
ArrOf(nr, nc, d, vals) == MkArr(nr, nc, d, LAMBDA r, c : vals[r * nc + c + 1])

UnitScale == PixelScale(MkScale(1, 1, 0))

\* Image(2, 1, ...)
SizeArgs ==
    {[InitArgs EXCEPT !.form = "size", !.ncol = 2, !.nrow = 1, !.dtype = dc[1],
                      !.const = dc[2]] :
        dc \in {<<"None", FALSE>>, <<"int16", TRUE>>, <<"int64", FALSE>>,
                <<"int8", FALSE>>}}
    \cup {[InitArgs EXCEPT !.form = "size", !.ncol = 2, !.nrow = 1,
                           !.hasiv = TRUE, !.iv = 1, !.wcs = UnitScale]}

\* Image(bounds, ...)
BoundsArgs ==
    {[InitArgs EXCEPT !.form = "bounds", !.bounds = BoundsI4(0, 1, 0, 0),
                      !.hasb = TRUE, !.dtype = "float64", !.wcs = UnitScale],
     [InitArgs EXCEPT !.form = "bounds", !.bounds = BoundsI0, !.hasb = TRUE]}

ArrayInputs ==
    {ArrOf(1, 2, "float32", <<1, 2>>), ArrOf(0, 1, "float64", <<>>),
     ArrOf(1, 0, "float64", <<>>), ArrOf(1, 1, "int64", <<3>>),
     ArrOf(1, 1, "int8", <<1>>)}

\* Image(array, ...)
ArrayArgs ==
    {[InitArgs EXCEPT !.form = "array", !.array = arr] : arr \in ArrayInputs}
    \cup {[InitArgs EXCEPT !.form = "array", !.array = ArrOf(1, 1, "int8", <<1>>),
                           !.dtype = "float32"],
          [InitArgs EXCEPT !.form = "array", !.array = ArrOf(1, 2, "float32", <<1, 2>>),
                           !.dtype = "int8"],
          [InitArgs EXCEPT !.form = "array", !.array = ArrOf(1, 2, "float32", <<1, 2>>),
                           !.bounds = BoundsI4(1, 2, 1, 1), !.hasb = TRUE,
                           !.const = TRUE],
          [InitArgs EXCEPT !.form = "array", !.array = ArrOf(1, 2, "float32", <<1, 2>>),
                           !.bounds = BoundsI4(1, 3, 1, 1), !.hasb = TRUE]}

CtorArgs == SizeArgs \cup BoundsArgs \cup ArrayArgs

\* The Images the first variable starts with.
StartArgs ==
    {a \in SizeArgs : a.dtype \in {"None", "int16"}}
    \cup {a \in BoundsArgs : IsDefined(a.bounds)}

\* Inside Image(2, 1), partly outside, disjoint, undefined.
BoundsInputs ==
    {BoundsI4(1, 2, 1, 1), BoundsI4(2, 2, 1, 1), BoundsI4(2, 3, 1, 1),
     BoundsI4(4, 4, 4, 4), BoundsI4(2, 1, 1, 1)}

SubBoundsInputs == {BoundsI4(2, 2, 1, 1), BoundsI4(2, 3, 1, 1)}
ResizeInputs == {BoundsI4(1, 1, 1, 2), BoundsI4(2, 1, 1, 1)}
PosInputs == {<<2, 1>>, <<3, 1>>}
IntScalar == [isimg |-> FALSE, array |-> Zeros(<<1, 1>>, "float32"), v |-> 2,
              k |-> "pyint"]
FloatScalar == [IntScalar EXCEPT !.k = "pyfloat"]

ViewInputs ==
    {ViewArgs, [ViewArgs EXCEPT !.dtype = "float64"],
     [ViewArgs EXCEPT !.const = TRUE], [ViewArgs EXCEPT !.mode = "center"]}

Bound(t) == ref[t] # 0

\* The variable an Image that is returned is bound to.
NewSlot == {2}

(***************************************************************************)
(* The calls.                                                              *)
(***************************************************************************)
\* d = Image(...)
Construct ==
    /\ CanCall
    /\ \E d \in NewSlot, a \in CtorArgs :
           ApplyWith("Image", d, d, a.bounds, 0, CtorArg(a), ImageInit(a))

\* d = Image(o) and d = Image(o, dtype=dt)
ConstructFromImage ==
    /\ CanCall
    /\ \E d \in NewSlot, o \in Slot, dt \in {"None", "int16"} :
           /\ Bound(o)
           /\ Apply("Image", d, d, BoundsI0, o,
                    ImageInit([InitArgs EXCEPT !.form = "image", !.image = Deref(o),
                                               !.dtype = dt]))

DoSubImage ==
    /\ CanCall
    /\ \E s \in Slot, d \in NewSlot, b \in BoundsInputs :
           /\ Bound(s)
           /\ Apply("subImage", s, d, b, 0, SubImage(Deref(s), b))

DoSetSubImage ==
    /\ CanCall
    /\ \E s \in Slot, o \in Slot, b \in SubBoundsInputs :
           /\ Bound(s) /\ Bound(o)
           /\ Apply("setSubImage", s, s, b, o, SetSubImage(Deref(s), b, Deref(o)))

DoCopyFrom ==
    /\ CanCall
    /\ \E s \in Slot, o \in Slot :
           /\ Bound(s) /\ Bound(o)
           /\ Apply("copyFrom", s, s, BoundsI0, o, CopyFrom(Deref(s), Deref(o)))

DoView ==
    /\ CanCall
    /\ \E s \in Slot, d \in NewSlot, v \in ViewInputs :
           /\ Bound(s)
           /\ Apply("view", s, d, BoundsI0, 0, View(Deref(s), v))

DoCopy ==
    /\ CanCall
    /\ \E s \in Slot, d \in NewSlot :
           /\ Bound(s)
           /\ Apply("copy", s, d, BoundsI0, 0, Copy(Deref(s)))

DoResize ==
    /\ CanCall
    /\ \E s \in Slot, b \in ResizeInputs :
           /\ Bound(s)
           /\ Apply("resize", s, s, b, 0, Resize(Deref(s), b))

DoShift ==
    /\ CanCall
    /\ \E s \in Slot :
           /\ Bound(s)
           /\ Apply("shift", s, s, BoundsI0, 0, Shift(Deref(s), 1, 0 - 1))

DoSetCenter ==
    /\ CanCall
    /\ \E s \in Slot :
           /\ Bound(s)
           /\ Apply("setCenter", s, s, BoundsI0, 0, SetCenter(Deref(s), 0, 0))

DoSetOrigin ==
    /\ CanCall
    /\ \E s \in Slot :
           /\ Bound(s)
           /\ Apply("setOrigin", s, s, BoundsI0, 0, SetOrigin(Deref(s), 0, 0))

DoSetValue ==
    /\ CanCall
    /\ \E s \in Slot, p \in PosInputs :
           /\ Bound(s)
           /\ Apply("setValue", s, s, BoundsI0, 0, SetValue(Deref(s), p[1], p[2], 5))

DoAddValue ==
    /\ CanCall
    /\ \E s \in Slot, p \in PosInputs :
           /\ Bound(s)
           /\ Apply("addValue", s, s, BoundsI0, 0, AddValue(Deref(s), p[1], p[2], 1))

DoFill ==
    /\ CanCall
    /\ \E s \in Slot, x \in {IntScalar, FloatScalar} :
           /\ Bound(s)
           /\ Apply("fill", s, s, BoundsI0, 0, Fill(Deref(s), x.v, x.k))

DoSetZero ==
    /\ CanCall
    /\ \E s \in Slot :
           /\ Bound(s)
           /\ Apply("setZero", s, s, BoundsI0, 0, SetZero(Deref(s)))

\* The pixels of a float or complex image are -1, 0 or 1 here.
DoInvertSelf ==
    /\ CanCall
    /\ \E s \in Slot :
           /\ Bound(s)
           /\ IsInteger(Deref(s).array)
                 \/ \A p \in DOMAIN Deref(s).array.data :
                        Deref(s).array.data[p] \in {0 - 1, 0, 1}
           /\ Apply("invertSelf", s, s, BoundsI0, 0, InvertSelf(Deref(s)))

DoReplaceNegative ==
    /\ CanCall
    /\ \E s \in Slot :
           /\ Bound(s)
           /\ Apply("replaceNegative", s, s, BoundsI0, 0, ReplaceNegative(Deref(s), 7))

\* The bounds wrapped onto lie inside the image.
DoWrap ==
    /\ CanCall
    /\ \E s \in Slot, d \in NewSlot, b \in BoundsInputs :
           /\ Bound(s)
           /\ IncludesBounds(Deref(s).bounds, b)
           /\ Apply("wrap", s, d, b, 0, Wrap(Deref(s), b))

\* The operands of s <op>= ...: the scalar 2, as an int and (for += and
\* **=) as a float, and the Image of the other variable.
Operands(s, name) ==
    {[t |-> 0, x |-> IntScalar]}
    \cup {[t |-> 0, x |-> FloatScalar] : n \in {name} \cap {"iadd", "ipow", "add"}}
    \cup {[t |-> o, x |-> ImageOperand(Deref(o))] : o \in {t \in Slot \ {s} : Bound(t)}}

\* A Python float is no operand of &, ^, |.
OperandOk(opn, me, other) ==
    /\ (opn \in {"and", "xor", "or"} /\ ~other.isimg) => other.k = "pyint"
    /\ (~other.isimg \/ me.array.shape = other.array.shape)
          => ArithOk(opn, me.array, other)

\* s += o, s -= o, ...
DoInPlace ==
    /\ CanCall
    /\ \E s \in Slot, name \in InPlaceOps :
           /\ Bound(s)
           /\ \E o \in Operands(s, name) :
                  /\ OperandOk(OpOf(name), Deref(s), o.x)
                  /\ Apply(name, s, s, BoundsI0, o.t, InPlace(name, Deref(s), o.x))

\* d = s + o, d = s / o
DoBinary ==
    /\ CanCall
    /\ \E s \in Slot, d \in NewSlot, opn \in {"add", "div"} :
           /\ Bound(s)
           /\ \E o \in Operands(s, opn) :
                  /\ OperandOk(opn, Deref(s), o.x)
                  /\ Apply(opn, s, d, BoundsI0, o.t, ImageBinary(Deref(s), opn, o.x))

DoCalculateFFT ==
    /\ CanCall
    /\ \E s \in Slot, d \in NewSlot :
           /\ Bound(s)
           /\ Apply("calculate_fft", s, d, BoundsI0, 0, CalculateFFT(Deref(s)))

DoCalculateInverseFFT ==
    /\ CanCall
    /\ \E s \in Slot, d \in NewSlot :
           /\ Bound(s)
           /\ Apply("calculate_inverse_fft", s, d, BoundsI0, 0,
                    CalculateInverseFFT(Deref(s)))

(***************************************************************************)
(* Surface-brightness objects.  A GSObject is an immutable value: a        *)
(* primitive profile (a stand-in that exposes flux, centroid,              *)
(* has_hard_edges, is_analytic_x and gsparams), a Convolution of a list of *)
(* objects or a Deconvolution of one object.                               *)
(***************************************************************************)
\* GSParams values: the default one, another one, and the combination that
\* GSParams.combine makes of different ones.
GSParamsDefault == "gsp0"
GSParamsOther == "gsp1"
GSParamsMixed == "gspX"

\* GSParams.check(gsparams, default): the gsparams given, else the default.
GSParamsCheck(g, d) == IF g = "None" THEN d ELSE g

\* GSParams.combine(list), for a list that is not empty.
GSParamsCombine(gs) ==
    IF \A i \in 1..Len(gs) : gs[i] = gs[1] THEN gs[1] ELSE GSParamsMixed

NoGS ==
    [kind |-> "None", cls |-> "None", flux |-> 0, cen |-> <<0, 0>>, hard |-> FALSE,
     anx |-> FALSE, gsp |-> "None", prop |-> FALSE, real |-> FALSE, objs |-> <<>>]

Prim(cls, flux, cen, hard, anx) ==
    [NoGS EXCEPT !.kind = "Prim", !.cls = cls, !.flux = flux, !.cen = cen,
                 !.hard = hard, !.anx = anx, !.gsp = GSParamsDefault]

RECURSIVE WithGSParams(_, _)
\* obj.withGSParams(gsparams)
WithGSParams(o, g) ==
    IF g = o.gsp THEN o
    ELSE IF o.kind = "Prim" THEN [o EXCEPT !.gsp = GSParamsCheck(g, o.gsp)]
    ELSE [o EXCEPT !.gsp = GSParamsCheck(g, o.gsp),
                   !.objs = IF o.prop
                            THEN [i \in 1..Len(o.objs) |->
                                     WithGSParams(o.objs[i], GSParamsCheck(g, o.gsp))]
                            ELSE o.objs]

RECURSIVE HasHardEdges(_)
\* obj.has_hard_edges
HasHardEdges(o) ==
    IF o.kind = "Prim" THEN o.hard
    ELSE IF o.kind = "Convolution"
         THEN Len(o.objs) = 1 /\ HasHardEdges(o.objs[1])
    ELSE FALSE

RECURSIVE IsAnalyticX(_)
\* obj.is_analytic_x.  No Convolution has real_space = True (its constructor
\* raises), so the branch of Convolution._is_analytic_x for real-space
\* convolutions of two objects is never taken.
IsAnalyticX(o) ==
    IF o.kind = "Prim" THEN o.anx
    ELSE IF o.kind = "Convolution"
         THEN Len(o.objs) = 1 /\ IsAnalyticX(o.objs[1])
    ELSE FALSE

\* The result of a call that makes a GSObject.
GSOutcome(e, o, w) == [err |-> e, obj |-> o, warn |-> w]

\* The objects a constructor is called with: form "args" for positional
\* GSObjects, form "list" for one list (or tuple) of GSObjects.
GSArgs(form, objs) == [form |-> form, objs |-> objs]

\* len(args) of the call
NumArgs(a) == IF a.form = "list" THEN 1 ELSE Len(a.objs)

HardEdge(objs) == \A i \in 1..Len(objs) : HasHardEdges(objs[i])

\* real_space after the automatic determination ("other": not a boolean)
AutoRealSpace(objs, rs) ==
    IF rs = "None" THEN (IF Len(objs) <= 2 THEN HardEdge(objs) ELSE FALSE)
    ELSE rs = "True"

\* The warning of a DFT convolution of objects with hard edges.
HardEdgeWarning(objs, real) ==
    IF ~real /\ HardEdge(objs)
    THEN IF Len(objs) = 2 THEN <<"hard_edges_2">> ELSE <<"hard_edges">>
    ELSE <<>>

\* Mistaken variant: a real-space request is never switched to the DFT method.
RealSpaceSwitchNever(objs, real) == [real |-> real, warn |-> <<>>]

\* The switch to the DFT method of a real-space request that cannot be
\* served: [real, warn].
RealSpaceSwitch(objs, real) ==
    IF ~real THEN [real |-> FALSE, warn |-> <<>>]
    ELSE IF Len(objs) > 2 THEN [real |-> FALSE, warn |-> <<"more_than_2">>]
    ELSE IF \E i \in 1..Len(objs) : ~IsAnalyticX(objs[i])
         THEN [real |-> FALSE, warn |-> <<"not_analytic">>]
    ELSE [real |-> TRUE, warn |-> <<>>]

\* The Convolution made of objs once real_space is settled as False.
ConvolutionBuild(objs, gsparams, prop, warn) ==
    IF gsparams = "None" /\ Len(objs) = 0
    THEN GSOutcome("IndexError", NoGS, warn)
    ELSE LET g == IF gsparams = "None"
                  THEN GSParamsCombine([i \in 1..Len(objs) |-> objs[i].gsp])
                  ELSE GSParamsCheck(gsparams, gsparams)
         IN  GSOutcome("ok",
                       [NoGS EXCEPT !.kind = "Convolution", !.cls = "Convolution",
                                    !.gsp = g, !.prop = prop, !.real = FALSE,
                                    !.objs = IF prop
                                             THEN [i \in 1..Len(objs) |->
                                                      WithGSParams(objs[i], g)]
                                             ELSE objs],
                       warn)

ConvolutionSettle(objs, gsparams, prop, real) ==
    LET sw == RealSpaceSwitch(objs, real)
        warn == HardEdgeWarning(objs, real) \o sw.warn
    IN  IF sw.real THEN GSOutcome("NotImplementedError", NoGS, warn)
        ELSE ConvolutionBuild(objs, gsparams, prop, warn)

\* Convolution(*args, real_space=rs, gsparams=gsparams, propagate_gsparams=prop)
ConvolutionInit(a, rs, gsparams, prop) ==
    IF NumArgs(a) = 0 THEN GSOutcome("TypeError", NoGS, <<>>)
    ELSE IF rs = "other" THEN GSOutcome("TypeError", NoGS, <<>>)
    ELSE ConvolutionSettle(a.objs, gsparams, prop, AutoRealSpace(a.objs, rs))

\* Convolve(*args, real_space=rs, gsparams=gsparams, propagate_gsparams=prop)
Convolve(a, rs, gsparams, prop) ==
    IF NumArgs(a) = 0 THEN GSOutcome("TypeError", NoGS, <<>>)
    ELSE ConvolutionInit(GSArgs("args", a.objs), rs, gsparams, prop)

\* Deconvolution(obj, gsparams, propagate_gsparams)
DeconvolutionInit(o, gsparams, prop) ==
    LET g == GSParamsCheck(gsparams, o.gsp)
    IN  GSOutcome("ok",
                  [NoGS EXCEPT !.kind = "Deconvolution", !.cls = "Deconvolution",
                               !.gsp = g, !.prop = prop,
                               !.objs = <<IF prop THEN WithGSParams(o, g) ELSE o>>],
                  <<>>)

\* Deconvolve(obj, gsparams, propagate_gsparams)
Deconvolve(o, gsparams, prop) == DeconvolutionInit(o, gsparams, prop)

RECURSIVE GSEq(_, _)
\* a == b: GSObject.__eq__ for a primitive profile (same class, same
\* flattened parameters), Convolution.__eq__ and Deconvolution.__eq__.
GSEq(a, b) ==
    IF a.kind = "Prim" THEN b.kind = "Prim" /\ b.cls = a.cls /\ b = a
    ELSE /\ b.kind = a.kind
         /\ Len(a.objs) = Len(b.objs)
         /\ \A i \in 1..Len(a.objs) : GSEq(a.objs[i], b.objs[i])
         /\ a.real = b.real
         /\ a.gsp = b.gsp
         /\ a.prop = b.prop

RECURSIVE ProdFrom(_, _)
\* jnp.prod of the fluxes fl[i..]
ProdFrom(fl, i) == IF i > Len(fl) THEN 1 ELSE fl[i] * ProdFrom(fl, i + 1)

\* Mistaken variant: the fluxes are added.
RECURSIVE SumFluxFrom(_, _)
SumFluxFrom(fl, i) == IF i > Len(fl) THEN 0 ELSE fl[i] + SumFluxFrom(fl, i + 1)

RECURSIVE SumFrom(_, _, _)
\* sum(cen_list[i:], start)
SumFrom(cl, i, start) ==
    IF i > Len(cl) THEN start
    ELSE SumFrom(cl, i + 1, <<start[1] + cl[i][1], start[2] + cl[i][2]>>)

\* Whether the flux of o is an integer of the model: the flux of a
\* Deconvolution is the reciprocal of its object's.
RECURSIVE FluxModelled(_)
FluxModelled(o) ==
    /\ o.kind # "Deconvolution"
    /\ \A i \in 1..Len(o.objs) : FluxModelled(o.objs[i])

\* Mistaken variant of Convolution._flux.
ConvolutionFluxSum(fl) == SumFluxFrom(fl, 1)

\* Convolution._flux of the list of the children's fluxes
ConvolutionFlux(fl) == ProdFrom(fl, 1)

\* Convolution._centroid of the list of the children's centroids (not empty)
ConvolutionCentroid(cl) == SumFrom(cl, 2, cl[1])

RECURSIVE Flux(_)
\* obj.flux
Flux(o) ==
    IF o.kind = "Convolution"
    THEN ConvolutionFlux([i \in 1..Len(o.objs) |-> Flux(o.objs[i])])
    ELSE o.flux

RECURSIVE CentroidRaises(_)
\* Whether obj.centroid raises: cen_list[0] of a Convolution without children.
CentroidRaises(o) ==
    \/ o.kind = "Convolution" /\ Len(o.objs) = 0
    \/ \E i \in 1..Len(o.objs) : CentroidRaises(o.objs[i])

RECURSIVE Centroid(_)
\* obj.centroid
Centroid(o) ==
    IF o.kind = "Convolution"
    THEN ConvolutionCentroid([i \in 1..Len(o.objs) |-> Centroid(o.objs[i])])
    ELSE IF o.kind = "Deconvolution"
         THEN <<-Centroid(o.objs[1])[1], -Centroid(o.objs[1])[2]>>
    ELSE o.cen

(***************************************************************************)
(* A program composing GSObjects: two variables hold GSObject values; the  *)
(* calls are the constructors of convolve.py, ==, and the properties flux  *)
(* and centroid.                                                           *)
(***************************************************************************)
\* At most MaxGSOps calls are made.
MaxGSOps == 2

CanCallGS == gops < MaxGSOps

NoVal == [t |-> "none", b |-> FALSE, n |-> 0, p |-> <<0, 0>>]
BoolVal(b) == [NoVal EXCEPT !.t = "bool", !.b = b]
NumVal(n) == [NoVal EXCEPT !.t = "num", !.n = n]
PosVal(p) == [NoVal EXCEPT !.t = "pos", !.p = p]

NoGSCall ==
    [name |-> "none", args |-> GSArgs("args", <<>>), rs |-> "None",
     gsparams |-> "None", prop |-> TRUE, src |-> 0, rhs |-> 0, dst |-> 0]

\* A call that makes a GSObject and binds it to the variable d.
GSApply(c, d, out) ==
    /\ gops' = gops + 1
    /\ gcall' = [c EXCEPT !.dst = d]
    /\ gerr' = out.err
    /\ gwarn' = out.warn
    /\ gval' = NoVal
    /\ gvar' = IF out.err = "ok" THEN [gvar EXCEPT ![d] = out.obj] ELSE gvar
    /\ UNCHANGED <<photVars, imgVars, draw, balg, rnd, fn>>

\* A call that returns a value that is not a GSObject.
GSRead(c, e, v) ==
    /\ gops' = gops + 1
    /\ gcall' = c
    /\ gerr' = e
    /\ gwarn' = <<>>
    /\ gval' = v
    /\ gvar' = gvar
    /\ UNCHANGED <<photVars, imgVars, draw, balg, rnd, fn>>

\* Stand-ins for primitive profiles: with and without hard edges, analytic
\* in real space or not.
Box == Prim("Box", 3, <<0, 1>>, TRUE, TRUE)
Gaussian == Prim("Gaussian", 2, <<1, 0>>, FALSE, TRUE)
Interpolated == Prim("InterpolatedImage", -1, <<1, 1>>, FALSE, FALSE)
HardTable == Prim("HardTable", 1, <<0, 0>>, TRUE, FALSE)
GaussianOther == WithGSParams(Gaussian, GSParamsOther)

Prims == {Box, Gaussian, Interpolated, HardTable}

StartObjs == Prims \cup {Deconvolve(p, "None", TRUE).obj : p \in {Box, Gaussian}}

\* The lists of children tried, built on the object v.
ChildLists(v) ==
    {<<>>, <<v>>, <<v, v>>, <<v, Box>>, <<v, GaussianOther>>, <<v, Box, Box>>}

RealSpaceInputs == {"None", "True", "False", "other"}
GSParamsInputs == {"None", GSParamsOther}

BoundGS(s) == gvar[s].kind # "None"

DoConvolution ==
    /\ CanCallGS
    /\ \E form \in {"args", "list"}, objs \in ChildLists(gvar[1]),
          rs \in RealSpaceInputs, g \in GSParamsInputs :
          GSApply([NoGSCall EXCEPT !.name = "Convolution",
                                   !.args = GSArgs(form, objs), !.rs = rs,
                                   !.gsparams = g],
                  2, ConvolutionInit(GSArgs(form, objs), rs, g, TRUE))

DoConvolve ==
    /\ CanCallGS
    /\ \E form \in {"args", "list"}, objs \in ChildLists(gvar[1]),
          rs \in RealSpaceInputs, g \in GSParamsInputs :
          GSApply([NoGSCall EXCEPT !.name = "Convolve",
                                   !.args = GSArgs(form, objs), !.rs = rs,
                                   !.gsparams = g],
                  2, Convolve(GSArgs(form, objs), rs, g, TRUE))

DoDeconvolve ==
    /\ CanCallGS
    /\ \E s \in {1, 2}, g \in GSParamsInputs, prop \in BOOLEAN :
          /\ BoundGS(s)
          /\ GSApply([NoGSCall EXCEPT !.name = "Deconvolve", !.src = s,
                                      !.gsparams = g, !.prop = prop],
                     2, Deconvolve(gvar[s], g, prop))

\* gvar[s] == gvar[o]
DoEq ==
    /\ CanCallGS
    /\ \E s \in {1, 2}, o \in {1, 2} :
          /\ BoundGS(s) /\ BoundGS(o)
          /\ GSRead([NoGSCall EXCEPT !.name = "==", !.src = s, !.rhs = o],
                    "ok", BoolVal(GSEq(gvar[s], gvar[o])))

\* gvar[s].flux
DoFlux ==
    /\ CanCallGS
    /\ \E s \in {1, 2} :
          /\ BoundGS(s) /\ FluxModelled(gvar[s])
          /\ GSRead([NoGSCall EXCEPT !.name = "flux", !.src = s],
                    "ok", NumVal(Flux(gvar[s])))

\* gvar[s].centroid
DoCentroid ==
    /\ CanCallGS
    /\ \E s \in {1, 2} :
          /\ BoundGS(s)
          /\ IF CentroidRaises(gvar[s])
             THEN GSRead([NoGSCall EXCEPT !.name = "centroid", !.src = s],
                         "IndexError", NoVal)
             ELSE GSRead([NoGSCall EXCEPT !.name = "centroid", !.src = s],
                         "ok", PosVal(Centroid(gvar[s])))

(***************************************************************************)
(* FFT sizing: GSObject.drawFFT_makeKImage.  The profile's stepk is        *)
(* pi / prof.rstep and its maxk is prof.maxk2 * pi / 2, for integers rstep *)
(* and maxk2; the image's pixel scale is an integer s.  gsp holds          *)
(* gsparams.minimum_fft_size and gsparams.maximum_fft_size.                *)
(***************************************************************************)
\* The largest maxk tried, in units of pi / 2.
MaxMaxk2 == 5

FFTProfile(rstep, maxk2, minfft, maxfft) ==
    [rstep |-> rstep, maxk2 |-> maxk2, minfft |-> minfft, maxfft |-> maxfft]

\* GSObject.getGoodImageSize(pixel_scale): 2 pi / (scale * stepk), made an
\* integer and rounded up to an even value.
GetGoodImageSize(p, s) == 2 * ((CeilDiv(2 * p.rstep, s) + 1) \div 2)

\* The sizes 2^k and 3 * 2^k, k >= 1, up to 2^18
GoodFFTSizes ==
    {Pow(2, k) : k \in 1..18} \cup {3 * Pow(2, k) : k \in 1..16}

\* insize <= p, for the integer p and insize = (1.0 - 1.0e-5) * input_size:
\* input_size - p <= input_size / 100000
ReducedSizeFits(p, input_size) == p >= input_size - (input_size \div 100000)

\* The least k >= k0 with log(insize) <= log(c) + k * log(2)
RECURSIVE CeilLog2From(_, _, _)
CeilLog2From(c, input_size, k) ==
    IF ReducedSizeFits(c * Pow(2, k), input_size) THEN k
    ELSE CeilLog2From(c, input_size, k + 1)

\* A good_fft_size that never goes to 3 * 2^k.
GoodFFTSizePow2(input_size) == Max2(Pow(2, CeilLog2From(1, input_size, 0)), 2)

\* Image.good_fft_size(input_size), for input_size >= 1: exp(log2n) is
\* 2^ceil(log2(insize)) and exp(log2n3) is 3 * 2^ceil(log2(insize / 3)),
\* made at least 6 (the exponents below 0 give less than 6).
GoodFFTSize(input_size) ==
    Max2(Min2(Pow(2, CeilLog2From(1, input_size, 0)),
              Max2(3 * Pow(2, CeilLog2From(3, input_size, 0)), 6)),
         2)

Abs(x) == IF x < 0 THEN 0 - x ELSE x

\* The size that covers the target image.
ImageN(b) ==
    Max2(2 * Max2(Max2(Abs(b.xmin), Abs(b.xmax)), Max2(Abs(b.ymin), Abs(b.ymax))),
         Max2(NumpyShape(b)[1], NumpyShape(b)[2]))

\* N when the gsparams leave a choice
ChosenN(p, b, s) ==
    Max2(GoodFFTSize(Max2(GetGoodImageSize(p, s), ImageN(b))), p.minfft)

\* Nk for the real-space size N: N when N * dk / 2 > maxk, that is
\* pi / s > maxk2 * pi / 2, else 2 * ceil(maxk / dk) with
\* maxk / dk = maxk2 * N * s / 4.
ChosenNk(p, N, s) ==
    IF 2 > p.maxk2 * s THEN N ELSE 2 * CeilDiv(p.maxk2 * N * s, 4)

\* [err, N, Nk] when the gsparams leave a choice
KImageSize(p, N, s) ==
    IF ChosenNk(p, N, s) > p.maxfft
    THEN [err |-> "GalSimFFTSizeError", N |-> N, Nk |-> ChosenNk(p, N, s)]
    ELSE [err |-> "ok", N |-> N, Nk |-> ChosenNk(p, N, s)]

\* The bounds, element type and scale of the kimage of size Nk.
KImage(sz, idt, s) ==
    [err |-> sz.err, N |-> sz.N, Nk |-> sz.Nk,
     bounds |-> BoundsI4(0, sz.Nk \div 2, (0 - sz.Nk) \div 2, sz.Nk \div 2),
     dtype |-> IF idt \in {"complex128", "float64", "int32", "uint32"}
               THEN "complex128" ELSE "complex64",
     scale |-> MkScale(2, sz.N * s, 1)]

\* drawFFT_makeKImage(image) for the profile p, an image of bounds b,
\* element type idt and pixel scale s.
DrawFFTMakeKImage(p, b, idt, s) ==
    IF p.maxfft = p.minfft
    THEN KImage([err |-> "ok", N |-> p.maxfft, Nk |-> p.maxfft], idt, s)
    ELSE KImage(KImageSize(p, ChosenN(p, b, s), s), idt, s)

(***************************************************************************)
(* GSObject.drawImage.  The profile drawn (self) is a stand-in with its    *)
(* has_hard_edges and is_analytic_x, and the FFT parameters of the profile *)
(* that is rendered.  The pixel values that a rendering engine writes are  *)
(* not modelled: every pixel receives the value 1.                         *)
(***************************************************************************)
Methods == {"auto", "fft", "real_space", "phot", "no_pixel", "sb"}

PhotonOnlyArgs == {"n_photons", "poisson_flux", "rng", "maxN", "save_photons"}

\* The arguments of drawImage with every optional one at its default.
\* phot is the set of the photon-only arguments that are given.
DrawArgs ==
    [self |-> NoGS, fft |-> FFTProfile(1, 1, 2, 8),
     hasimg |-> FALSE, nx |-> NoneN, ny |-> NoneN, hasb |-> FALSE,
     bounds |-> BoundsI0, hasscale |-> FALSE, scale |-> MkScale(1, 1, 0),
     haswcs |-> FALSE, wcs |-> NoWcs, dtype |-> "None", method |-> "auto",
     add |-> FALSE, phot |-> {}, sensor |-> FALSE, sclass |-> "Sensor",
     setup_only |-> FALSE]

\* The state of a drawImage call: the error raised, the warnings emitted,
\* the caller's image (im), the Image to return (ret; the caller's image
\* when one is given) and the wcs resolved.
DrawState(e, warn, im, ret, w) ==
    [err |-> e, warn |-> warn, im |-> im, ret |-> ret, wcs |-> w]

\* The Nyquist scale pi / maxk of the profile
NyquistScale(a) == MkScale(2, a.fft.maxk2, 0)

\* A pixel scale that is not positive is replaced by the Nyquist scale.
PositiveScale(a, w) ==
    IF IsPixelScale(w) /\ w.scale.n <= 0 THEN PixelScale(NyquistScale(a)) ELSE w

\* GSObject._determine_wcs(scale, wcs, image): [err, wcs, im], im being the
\* caller's image after the call.
DetermineWcs(a, im) ==
    IF a.haswcs
    THEN IF a.hasscale
         THEN [err |-> "GalSimIncompatibleValuesError", wcs |-> a.wcs, im |-> im]
         ELSE [err |-> "ok", wcs |-> PositiveScale(a, a.wcs),
               im |-> [im EXCEPT !.wcs = NoWcs]]
    ELSE IF a.hasscale
         THEN [err |-> "ok", wcs |-> PositiveScale(a, PixelScale(a.scale)),
               im |-> [im EXCEPT !.wcs = NoWcs]]
    ELSE IF a.hasimg /\ ~im.wcs.none
         THEN [err |-> "ok", wcs |-> PositiveScale(a, im.wcs), im |-> im]
    ELSE [err |-> "ok", wcs |-> PixelScale(NyquistScale(a)), im |-> im]

\* A validation that accepts every photon-only argument with a sensor.
ValidateMethodSensor(a) ==
    IF a.method \notin Methods THEN "GalSimValueError"
    ELSE IF a.method # "phot" /\ ~a.sensor /\ a.phot # {}
         THEN "GalSimIncompatibleValuesError"
    ELSE "ok"

\* The validation of the method and of the photon-only arguments: the error
\* raised, "ok" when none.
ValidateMethod(a) ==
    IF a.method = "phot" /\ "save_photons" \in a.phot /\ "maxN" \in a.phot
    THEN "GalSimIncompatibleValuesError"
    ELSE IF a.method \notin Methods THEN "GalSimValueError"
    ELSE IF a.method # "phot" /\ a.phot \cap {"n_photons", "poisson_flux"} # {}
         THEN "GalSimIncompatibleValuesError"
    ELSE IF a.method # "phot" /\ ~a.sensor
            /\ a.phot \cap {"rng", "maxN", "save_photons"} # {}
         THEN "GalSimIncompatibleValuesError"
    ELSE "ok"

\* A unit Pixel
PixelProfile == Prim("Pixel", 1, <<0, 0>>, TRUE, TRUE)

\* The profile that is rendered: convolved by the pixel for the methods
\* auto, fft and real_space.
ConvolveByPixel(a) ==
    IF a.method \in {"auto", "fft", "real_space"}
    THEN Convolve(GSArgs("args", <<a.self, PixelProfile>>),
                  IF a.method = "auto" THEN "None"
                  ELSE IF a.method = "fft" THEN "False" ELSE "True",
                  a.self.gsp, TRUE)
    ELSE GSOutcome("ok", a.self, <<>>)

\* The Image made by _setup_image when none is given.
NewImage(a, b) ==
    ImageInit([InitArgs EXCEPT !.form = "bounds", !.bounds = b, !.hasb = TRUE,
                               !.dtype = a.dtype])

\* GSObject._setup_image: [err, im, made], im being the Image to draw on.
SetupImage(a, im, N) ==
    IF a.hasimg
    THEN IF a.hasb \/ a.nx # NoneN \/ a.ny # NoneN
            \/ (a.dtype # "None" /\ im.array.dt # a.dtype)
         THEN [err |-> "GalSimIncompatibleValuesError", im |-> im, made |-> FALSE]
         ELSE IF IsDefined(im.bounds)
              THEN [err |-> "ok", im |-> im, made |-> FALSE]
         ELSE IF a.add
              THEN [err |-> "GalSimIncompatibleValuesError", im |-> im,
                    made |-> FALSE]
         ELSE [err |-> Resize(im, BoundsI4(1, N, 1, N)).err,
               im |-> Resize(im, BoundsI4(1, N, 1, N)).self, made |-> FALSE]
    ELSE IF a.add
         THEN [err |-> "GalSimIncompatibleValuesError", im |-> NoObj, made |-> FALSE]
    ELSE IF a.hasb
         THEN IF a.nx # NoneN \/ a.ny # NoneN
              THEN [err |-> "GalSimIncompatibleValuesError", im |-> NoObj,
                    made |-> FALSE]
              ELSE IF ~IsDefined(a.bounds)
                   THEN [err |-> "GalSimValueError", im |-> NoObj, made |-> FALSE]
              ELSE [err |-> NewImage(a, a.bounds).err,
                    im |-> NewImage(a, a.bounds).ret, made |-> TRUE]
    ELSE IF a.nx # NoneN \/ a.ny # NoneN
         THEN IF a.nx = NoneN \/ a.ny = NoneN
              THEN [err |-> "GalSimIncompatibleValuesError", im |-> NoObj,
                    made |-> FALSE]
              ELSE [err |-> NewImage(a, BoundsI4(1, a.nx, 1, a.ny)).err,
                    im |-> NewImage(a, BoundsI4(1, a.nx, 1, a.ny)).ret,
                    made |-> TRUE]
    ELSE [err |-> NewImage(a, BoundsI4(1, N, 1, N)).err,
          im |-> NewImage(a, BoundsI4(1, N, 1, N)).ret, made |-> TRUE]

\* The pixels written by a rendering engine on the image im.
Rendered(im, add) ==
    [im EXCEPT !.array =
        MapArr(im.array, im.array.dt,
               LAMBDA x : CastVal((IF add THEN x ELSE 0) + 1, im.array.dt))]

\* The function of wrap_image that Image._wrap(bounds, hermx, hermy) calls
WrapMode(hermx, hermy) ==
    IF ~hermx /\ ~hermy THEN "wrap_nonhermitian"
    ELSE IF hermx /\ ~hermy THEN "wrap_hermitian_x"
    ELSE IF ~hermx /\ hermy THEN "wrap_hermitian_y"
    ELSE "none"

\* A wrap of the k-space image onto bwrap with no Hermitian flag.
FinishWrapNonHermitian(N) ==
    [bounds |-> BoundsI4(0, N \div 2, (0 - N) \div 2, N \div 2 - 1),
     hermx |-> FALSE, hermy |-> FALSE]

\* drawFFT_finish: kimage._wrap(bwrap, True, False) for the wrap_size N
FinishWrap(N) ==
    [bounds |-> BoundsI4(0, N \div 2, (0 - N) \div 2, N \div 2 - 1),
     hermx |-> TRUE, hermy |-> FALSE]

\* The bounds wrapped onto and the function of wrap_image called.
WrapCall(w) == [bounds |-> w.bounds, mode |-> WrapMode(w.hermx, w.hermy)]

\* drawFFT_finish: the bounds breal of the real image of size N
FinishReal(N) ==
    BoundsI4((0 - N) \div 2, N \div 2 - 1, (0 - N) \div 2, N \div 2 - 1)

\* drawFFT_finish: the k-space image is wrapped onto bwrap (_wrap ends with
\* subImage(bwrap)), and the real image of size N is cut to the bounds of
\* the image.
DrawFFTFinish(a, im, k) ==
    IF k.err # "ok" THEN [err |-> k.err, im |-> im]
    ELSE IF ~IncludesBounds(k.bounds, FinishWrap(k.N).bounds)
         THEN [err |-> "GalSimBoundsError", im |-> im]
    ELSE IF ~IncludesBounds(FinishReal(k.N), im.bounds)
         THEN [err |-> "GalSimBoundsError", im |-> im]
    ELSE [err |-> "ok", im |-> Rendered(im, a.add)]

\* GSObject.drawFFT(image, add_to_image): [err, im]
DrawFFT(a, im) ==
    IF ~IsPixelScale(im.wcs) THEN [err |-> "GalSimValueError", im |-> im]
    ELSE DrawFFTFinish(a, im, DrawFFTMakeKImage(a.fft, im.bounds, im.dtype, 1))

\* GSObject.drawReal(image, add_to_image): [err, im]
DrawReal(a, im) ==
    IF ~IsPixelScale(im.wcs) THEN [err |-> "GalSimValueError", im |-> im]
    ELSE [err |-> "ok", im |-> Rendered(im, a.add)]

\* GSObject.drawPhot(image, ...): [err, im].  The image is zeroed with
\* setZero unless the photons are added to it; a sensor whose class is not
\* Sensor is refused once the photons are on the image.
DrawPhotImage(a, im) ==
    IF ~IsPixelScale(im.wcs) THEN [err |-> "GalSimValueError", im |-> im]
    ELSE IF ~a.add /\ SetZero(im).err # "ok"
         THEN [err |-> SetZero(im).err, im |-> im]
    ELSE IF a.sensor /\ a.sclass # "Sensor"
         THEN [err |-> "GalSimNotImplementedError", im |-> Rendered(im, a.add)]
    ELSE [err |-> "ok", im |-> Rendered(im, a.add)]

\* The dispatch to the rendering engine of the profile prof: [err, im]
Dispatch(a, prof, im) ==
    IF a.method = "phot" THEN DrawPhotImage(a, im)
    ELSE IF a.sensor THEN [err |-> "NotImplementedError", im |-> im]
    ELSE IF IsAnalyticX(prof) THEN DrawReal(a, im)
    ELSE DrawFFT(a, im)

\* The image left as it was rendered: centred at (0, 0), unit PixelScale.
RestoreNothing(d, cen, w) == d

\* The image once rendered: its center and wcs are restored.
Restore(d, cen, w) ==
    IF d.err # "ok" THEN d
    ELSE [err |-> "ok", im |-> [ShiftImage(d.im, cen.x, cen.y) EXCEPT !.wcs = w]]

\* The image is recentred at (0, 0) with a unit PixelScale, rendered, and
\* given back its center and its wcs.
Render(a, prof, im, w) ==
    Restore(Dispatch(a, prof,
                     [SetCenter(im, 0, 0).self EXCEPT !.wcs = UnitScale]),
            BoundsCenter(im.bounds), w)

\* The outcome of drawImage on the image set up (su) and rendered (d).
Drawn(su, d) == [err |-> d.err, im |-> d.im, made |-> su.made]

\* drawImage from the image set up (su) on: [err, im, made]
DrawOnImage(a, prof, su, w) ==
    IF su.err # "ok" THEN su
    ELSE IF a.setup_only THEN [su EXCEPT !.im = [su.im EXCEPT !.wcs = w]]
    ELSE Drawn(su, Render(a, prof, [su.im EXCEPT !.wcs = w], w))

\* The outcome with the warnings of the convolution by the pixel.
WithWarnings(d, warn) ==
    [err |-> d.err, im |-> d.im, made |-> d.made, warn |-> warn]

\* drawImage once the wcs is resolved (dw): the profile is convolved by the
\* pixel (cv), the image is set up and drawn on.
DrawWithWcs(a, dw, cv) ==
    IF cv.err # "ok"
    THEN [err |-> cv.err, im |-> dw.im, made |-> FALSE, warn |-> cv.warn]
    ELSE WithWarnings(DrawOnImage(a, cv.obj,
                                  SetupImage(a, dw.im, GetGoodImageSize(a.fft, 1)),
                                  dw.wcs),
                      cv.warn)

\* drawImage(...) with the arguments a, im being the caller's image (NoObj
\* when none is given): [err, im, made, warn]; when made holds im is a new
\* Image, else it is the caller's image after the call.
DrawImage(a, im) ==
    IF ValidateMethod(a) # "ok"
    THEN [err |-> ValidateMethod(a), im |-> im, made |-> FALSE, warn |-> <<>>]
    ELSE IF DetermineWcs(a, im).err # "ok"
         THEN [err |-> DetermineWcs(a, im).err, im |-> im, made |-> FALSE,
               warn |-> <<>>]
    ELSE DrawWithWcs(a, DetermineWcs(a, im), ConvolveByPixel(a))

(***************************************************************************)
(* One call of drawImage, or of drawFFT_makeKImage.  The first variable of *)
(* the program holds the caller's Image; an Image that drawImage makes is  *)
(* bound to the second one.                                                *)
(***************************************************************************)
NoKIn == [b |-> BoundsI0, dtype |-> "float32", s |-> 1]

NoK ==
    [err |-> "ok", N |-> 0, Nk |-> 0, bounds |-> BoundsI0, dtype |-> "complex64",
     scale |-> MkScale(1, 1, 0)]

\* No call has been made.
NoDraw ==
    [name |-> "none", args |-> DrawArgs, err |-> "ok", warn |-> <<>>, ret |-> 0,
     stage |-> "none", kin |-> NoKIn, k |-> NoK,
     fin |-> [bounds |-> BoundsI0, mode |-> "none"]]

\* The profiles drawn, and the FFT parameters of what is rendered for them.
DrawProfiles == {Gaussian, Interpolated, Box}

FFTOf(o) ==
    IF o = Gaussian THEN FFTProfile(1, 1, 2, 8)
    ELSE IF o = Interpolated THEN FFTProfile(1, 5, 4, 6)
    ELSE FFTProfile(1, 3, 2, 8)

\* <<nx, ny, a bounds is given, bounds>>
SizeCases ==
    {<<NoneN, NoneN, FALSE, BoundsI0>>, <<2, NoneN, FALSE, BoundsI0>>,
     <<2, 1, FALSE, BoundsI0>>, <<NoneN, NoneN, TRUE, BoundsI4(1, 2, 1, 1)>>,
     <<2, 1, TRUE, BoundsI4(1, 2, 1, 1)>>, <<NoneN, NoneN, TRUE, BoundsI4(2, 1, 1, 1)>>}

\* <<a scale is given, scale, a wcs is given, wcs>>
WcsCases ==
    {<<FALSE, MkScale(1, 1, 0), FALSE, NoWcs>>,
     <<TRUE, MkScale(2, 1, 0), FALSE, NoWcs>>,
     <<TRUE, MkScale(0, 1, 0), FALSE, NoWcs>>,
     <<FALSE, MkScale(1, 1, 0), TRUE, PixelScale(MkScale(3, 1, 0))>>,
     <<TRUE, MkScale(2, 1, 0), TRUE, PixelScale(MkScale(3, 1, 0))>>}

PhotCases == {{}} \cup {{p} : p \in PhotonOnlyArgs} \cup {{"save_photons", "maxN"}}

\* <<a sensor is given, its class, add_to_image, setup_only>>
FlagCases ==
    {<<s[1], s[2], add, FALSE>> :
        s \in {<<FALSE, "Sensor">>, <<TRUE, "Sensor">>, <<TRUE, "subclass">>},
        add \in BOOLEAN}
    \cup {<<FALSE, "Sensor", add, TRUE>> : add \in BOOLEAN}

DrawInputs ==
    {[DrawArgs EXCEPT !.self = t[1], !.fft = FFTOf(t[1]), !.hasimg = t[2],
                      !.nx = t[3][1], !.ny = t[3][2], !.hasb = t[3][3],
                      !.bounds = t[3][4], !.hasscale = t[4][1], !.scale = t[4][2],
                      !.haswcs = t[4][3], !.wcs = t[4][4], !.method = t[5],
                      !.phot = t[6], !.sensor = t[7][1], !.sclass = t[7][2],
                      !.add = t[7][3], !.setup_only = t[7][4]] :
        t \in DrawProfiles \X BOOLEAN \X SizeCases \X WcsCases
              \X (Methods \cup {"bad"}) \X PhotCases \X FlagCases}

\* The step of drawImage(a) that raises, out being the outcome of the call
\* and su the outcome of _setup_image.
FailStage(a, im, out, su) ==
    IF ValidateMethod(a) # "ok" THEN "validate"
    ELSE IF DetermineWcs(a, im).err # "ok" THEN "wcs"
    ELSE IF ConvolveByPixel(a).err # "ok" THEN "convolve"
    ELSE IF su.err # "ok" THEN "setup"
    ELSE IF out.err # "ok" THEN "render"
    ELSE "done"

\* The call drawImage(a) whose outcome is out.
DrawApply(a, out) ==
    /\ draw' = [NoDraw EXCEPT !.name = "drawImage", !.args = a, !.err = out.err,
                              !.warn = out.warn,
                              !.stage =
                                 FailStage(a, IF a.hasimg THEN Deref(1) ELSE NoObj, out,
                                           SetupImage(a, DetermineWcs(a, IF a.hasimg THEN Deref(1) ELSE NoObj).im,
                                                      GetGoodImageSize(a.fft, 1))),
                              !.ret = IF out.err # "ok" THEN 0
                                      ELSE IF out.made THEN 2 ELSE 1]
    /\ heap' = [i \in ObjId |->
                  IF i = ref[1] /\ a.hasimg THEN out.im
                  ELSE IF i = 2 /\ out.err = "ok" /\ out.made THEN out.im
                  ELSE heap[i]]
    /\ ref' = [ref EXCEPT ![2] = IF out.err = "ok" /\ out.made THEN 2 ELSE @]
    /\ UNCHANGED <<photVars, gsVars, balg, rnd, fn, err, call, prov, nops>>

DoDrawImage ==
    /\ draw.name = "none"
    /\ \E a \in DrawInputs :
          DrawApply(a, DrawImage(a, IF a.hasimg THEN Deref(1) ELSE NoObj))

FFTProfiles ==
    {FFTProfile(r, m, f[1], f[2]) :
        r \in 1..2, m \in 1..MaxMaxk2, f \in {<<2, 8>>, <<4, 4>>, <<8, 8>>, <<2, 16>>}}

KBoundsInputs == {BoundsI4(-1, 0, 0, 0), BoundsI4(-2, 1, -1, 0), BoundsI4(1, 6, 1, 1)}

\* The call drawFFT(image, add_to_image) of a profile of FFT parameters
\* a.fft, whose outcome is out and whose k-space image is k
DrawFFTApply(a, out, k) ==
    /\ draw' = IF ~IsPixelScale(Deref(1).wcs)
               THEN [NoDraw EXCEPT !.name = "drawFFT", !.args = a, !.err = out.err,
                                   !.stage = "wcs"]
               ELSE IF k.err # "ok"
               THEN [NoDraw EXCEPT !.name = "drawFFT", !.args = a, !.err = out.err,
                                   !.stage = "makeKImage", !.k = k]
               ELSE [NoDraw EXCEPT !.name = "drawFFT", !.args = a, !.err = out.err,
                                   !.stage = "finish", !.k = k,
                                   !.fin = WrapCall(FinishWrap(k.N))]
    /\ heap' = [heap EXCEPT ![ref[1]] = out.im]
    /\ UNCHANGED <<photVars, gsVars, balg, rnd, fn, ref, err, call, prov, nops>>

\* drawFFT(image, add_to_image) on the caller's image, set up with defined
\* bounds and a pixel scale of 1 or no wcs
DoDrawFFT ==
    /\ draw.name = "none"
    /\ IsDefined(Deref(1).bounds)
    /\ \E p \in FFTProfiles, add \in BOOLEAN :
          DrawFFTApply([DrawArgs EXCEPT !.fft = p, !.add = add],
                       DrawFFT([DrawArgs EXCEPT !.fft = p, !.add = add], Deref(1)),
                       DrawFFTMakeKImage(p, Deref(1).bounds, Deref(1).dtype, 1))

\* drawFFT_makeKImage(image) on an image of bounds b, element type idt and
\* pixel scale s
DoMakeKImage ==
    /\ draw.name = "none"
    /\ \E p \in FFTProfiles, b \in KBoundsInputs, idt \in {"float32", "float64"},
          s \in 1..2 :
          /\ draw' = [NoDraw EXCEPT !.name = "drawFFT_makeKImage",
                                    !.args = [DrawArgs EXCEPT !.fft = p],
                                    !.kin = [b |-> b, dtype |-> idt, s |-> s],
                                    !.k = DrawFFTMakeKImage(p, b, idt, s),
                                    !.err = DrawFFTMakeKImage(p, b, idt, s).err]
          /\ UNCHANGED <<photVars, imgVars, gsVars, balg, rnd, fn>>

(***************************************************************************)
(* The intersection and the union of two bounds of the same class.         *)
(***************************************************************************)
\* Bounds.__and__(other)
BoundsAnd(a, b) ==
    IF ~IsDefined(a) \/ ~IsDefined(b) THEN BoundsI0
    ELSE IF Max2(a.xmin, b.xmin) > Min2(a.xmax, b.xmax)
            \/ Max2(a.ymin, b.ymin) > Min2(a.ymax, b.ymax)
         THEN BoundsI0
    ELSE BoundsI4(Max2(a.xmin, b.xmin), Min2(a.xmax, b.xmax),
                  Max2(a.ymin, b.ymin), Min2(a.ymax, b.ymax))

\* The hull of the fields of a and b, whether they are defined or not.
BoundsAddHull(a, b) ==
    BoundsI4(Min2(a.xmin, b.xmin), Max2(a.xmax, b.xmax),
             Min2(a.ymin, b.ymin), Max2(a.ymax, b.ymax))

\* Bounds.__add__(other) for a bounds other
BoundsAdd(a, b) ==
    IF ~IsDefined(b) THEN a
    ELSE IF IsDefined(a)
         THEN BoundsI4(Min2(a.xmin, b.xmin), Max2(a.xmax, b.xmax),
                       Min2(a.ymin, b.ymin), Max2(a.ymax, b.ymax))
    ELSE b

MaxCoord == 2
Coords == 0..MaxCoord

\* The bounds a & b and a + b are computed for: every BoundsI(x0, x1, y0, y1)
\* of the coordinates, the undefined ones among them, and BoundsI().
BoundsOperands ==
    {BoundsI4(x0, x1, y0, y1) : x0 \in Coords, x1 \in Coords, y0 \in 0..1, y1 \in 0..1}
    \cup {BoundsI0}

(***************************************************************************)
(* The construction of a BoundsI.  An argument is a number given in halves *)
(* (v2 = 2 * value), either a Python number or a JAX array (jax).          *)
(***************************************************************************)
Num(v2, jax) == [v2 |-> v2, jax |-> jax]
PyInt(n) == Num(2 * n, FALSE)
JaxInt(n) == Num(2 * n, TRUE)

\* isinstance(x, (float, int))
IsPython(n) == ~n.jax

\* x != int(x)
NonIntegral(n) == n.v2 % 2 # 0

\* cast_to_int(x): int(x), the value truncated toward zero
CastToInt(n) == IF n.v2 >= 0 THEN n.v2 \div 2 ELSE 0 - ((0 - n.v2) \div 2)

\* The arguments of BoundsI(...): form is "none" (no argument), "four",
\* "kw" (keywords), "copy" (of the bounds src), "pos1" (the position p) or
\* "pos2" (the positions p and q).
BArgs(form, x, src, p, q) == [form |-> form, x |-> x, src |-> src, p |-> p, q |-> q]

NoBArgs == BArgs("noargs", <<PyInt(0), PyInt(0), PyInt(0), PyInt(0)>>, BoundsI0,
                 <<0, 0>>, <<0, 0>>)

\* The fields set by the branch of _parse_args taken: <<xmin, xmax, ymin, ymax>>
ParsedFields(a) ==
    IF a.form = "none" THEN <<PyInt(0), PyInt(0), PyInt(0), PyInt(0)>>
    ELSE IF a.form \in {"four", "kw"} THEN a.x
    ELSE IF a.form = "copy"
         THEN <<PyInt(a.src.xmin), PyInt(a.src.xmax), PyInt(a.src.ymin),
                PyInt(a.src.ymax)>>
    ELSE IF a.form = "pos1"
         THEN <<PyInt(a.p[1]), PyInt(a.p[1]), PyInt(a.p[2]), PyInt(a.p[2])>>
    ELSE <<PyInt(Min2(a.p[1], a.q[1])), PyInt(Max2(a.p[1], a.q[1])),
           PyInt(Min2(a.p[2], a.q[2])), PyInt(Max2(a.p[2], a.q[2]))>>

\* The four fields are Python numbers: the tests on them are made.
AllPython(f) == \A i \in 1..4 : IsPython(f[i])

\* The _isdefined that _parse_args leaves, f being the fields it has set.
ParsedDefined(a, f) ==
    /\ a.form # "none"
    /\ ~(AllPython(f) /\ (f[1].v2 > f[2].v2 \/ f[3].v2 > f[4].v2))

\* BoundsI.__init__ raises for Python numbers that are not integral.
BoundsICheckNone(f) == FALSE

BoundsICheck(f) == AllPython(f) /\ \E i \in 1..4 : NonIntegral(f[i])

\* The BoundsI made of the fields f.
BoundsIOf(d, f) ==
    [def |-> d, xmin |-> CastToInt(f[1]), xmax |-> CastToInt(f[2]),
     ymin |-> CastToInt(f[3]), ymax |-> CastToInt(f[4])]

\* BoundsI(...): [err, b]
BoundsIInit(a) ==
    IF BoundsICheck(ParsedFields(a))
    THEN [err |-> "TypeError", b |-> BoundsI0]
    ELSE [err |-> "ok", b |-> BoundsIOf(ParsedDefined(a, ParsedFields(a)),
                                        ParsedFields(a))]

\* The arguments that Bounds.withBorder(dx, dy) gives to BoundsI, dx2 and
\* dy2 being the halves of the JAX arrays dx and dy
WithBorderArgs(b, dx2, dy2) ==
    BArgs("four", <<Num(2 * b.xmin - dx2, TRUE), Num(2 * b.xmax + dx2, TRUE),
                    Num(2 * b.ymin - dy2, TRUE), Num(2 * b.ymax + dy2, TRUE)>>,
          BoundsI0, <<0, 0>>, <<0, 0>>)

\* jnp.ceil((max - min) * 0.5 * (factor - 1.0)) in halves, for the width
\* w = max - min and the factor f2 / 2
BorderGrowth(w, f2) == 2 * CeilDiv(w * (f2 - 2), 4)

\* The arguments of the BoundsI that Bounds.expand(factor_x, factor_y) makes
ExpandArgs(b, fx2, fy2) ==
    WithBorderArgs(b, BorderGrowth(b.xmax - b.xmin, fx2),
                      BorderGrowth(b.ymax - b.ymin, fy2))

\* Bounds.expand(factor_x, factor_y) on a BoundsI: [err, b]
Expand(b, fx2, fy2) == BoundsIInit(ExpandArgs(b, fx2, fy2))

MaxHalf == 4
MaxFactor2 == 5

\* The numbers given to BoundsI: 0, 0.5, ..., MaxHalf / 2, as Python numbers
\* and as JAX arrays
NumInputs == {Num(v, j) : v \in 0..MaxHalf, j \in BOOLEAN}

\* The arguments of BoundsI(...) in each of its forms
BArgsInputs ==
    {BArgs(fm, <<x0, x1, y0, PyInt(1)>>, BoundsI0, <<0, 0>>, <<0, 0>>) :
        fm \in {"four", "kw"}, x0 \in NumInputs, x1 \in NumInputs, y0 \in NumInputs}
    \cup {BArgs("pos2", NoBArgs.x, BoundsI0, <<px, py>>, <<qx, 1>>) :
            px \in Coords, py \in Coords, qx \in Coords}
    \cup {BArgs("pos1", NoBArgs.x, BoundsI0, <<px, py>>, <<0, 0>>) :
            px \in Coords, py \in Coords}
    \cup {BArgs("none", NoBArgs.x, BoundsI0, <<0, 0>>, <<0, 0>>)}

\* BoundsI(...) with the arguments drawn
DoBoundsI ==
    /\ balg.op = "none"
    /\ balg.args.form # "noargs"
    /\ balg' = [balg EXCEPT !.op = "init", !.out = BoundsIInit(balg.args).b,
                            !.err = BoundsIInit(balg.args).err]
    /\ UNCHANGED <<photVars, imgVars, gsVars, draw, rnd, fn>>

\* BoundsI(a)
DoBoundsCopy ==
    /\ balg.op = "none"
    /\ balg.args.form = "noargs"
    /\ balg' = [balg EXCEPT
                  !.op = "copy",
                  !.args = BArgs("copy", NoBArgs.x, balg.a, <<0, 0>>, <<0, 0>>),
                  !.out = BoundsIInit(BArgs("copy", NoBArgs.x, balg.a, <<0, 0>>,
                                            <<0, 0>>)).b]
    /\ UNCHANGED <<photVars, imgVars, gsVars, draw, rnd, fn>>

\* a.expand(factor_x, factor_y), the factors being f[1] / 2 and f[2] / 2
DoExpand ==
    /\ balg.op = "none"
    /\ balg.args.form = "noargs"
    /\ \E f \in {<<g, g>> : g \in 0..MaxFactor2} \cup {<<2, 4>>} :
          balg' = [balg EXCEPT !.op = "expand", !.f = f,
                               !.args = ExpandArgs(balg.a, f[1], f[2]),
                               !.out = Expand(balg.a, f[1], f[2]).b,
                               !.err = Expand(balg.a, f[1], f[2]).err]
    /\ UNCHANGED <<photVars, imgVars, gsVars, draw, rnd, fn>>

\* a & b
DoAnd ==
    /\ balg.op = "none"
    /\ balg.args.form = "noargs"
    /\ balg' = [balg EXCEPT !.op = "and", !.out = BoundsAnd(balg.a, balg.b)]
    /\ UNCHANGED <<photVars, imgVars, gsVars, draw, rnd, fn>>

\* a + b
DoAdd ==
    /\ balg.op = "none"
    /\ balg.args.form = "noargs"
    /\ balg' = [balg EXCEPT !.op = "add", !.out = BoundsAdd(balg.a, balg.b)]
    /\ UNCHANGED <<photVars, imgVars, gsVars, draw, rnd, fn>>

(***************************************************************************)
(* BaseDeviate / UniformDeviate.  A key of jax.random is the seed it was   *)
(* made of and the number of times it has been split; a value drawn is the *)
(* subkey it is computed from.  A deviate is an object whose _key is bound *)
(* to a key; the variables of the program refer to deviates.               *)
(***************************************************************************)
\* jrandom.PRNGKey(seed)
PRNGKey(s) == [seed |-> s, n |-> 0]

\* jrandom.split(key): the key to keep and the subkey
Split(key) == [key |-> [key EXCEPT !.n = @ + 1], subkey |-> key]

\* jrandom.uniform(subkey, dtype=float)
Uniform(subkey) == <<"uniform", subkey.seed, subkey.n>>

\* UniformDeviate._generate_one(key, x): [key, val]
GenerateOne(key) == [key |-> Split(key).key, val |-> Uniform(Split(key).subkey)]

\* UniformDeviate._generate(key, array) for an array of n elements: the scan
\* of _generate_one, [key, vals]
RECURSIVE GenerateScan(_, _)
GenerateScan(key, n) ==
    IF n = 0 THEN [key |-> key, vals |-> <<>>]
    ELSE [key |-> GenerateScan(GenerateOne(key).key, n - 1).key,
          vals |-> <<GenerateOne(key).val>>
                   \o GenerateScan(GenerateOne(key).key, n - 1).vals]

\* BaseDeviate.discard(n): the fori_loop of n splits
RECURSIVE Discard(_, _)
Discard(key, n) == IF n = 0 THEN key ELSE Discard(Split(key).key, n - 1)

\* The deviates: the _key of each object
DevId == {1, 2}
NoKey == PRNGKey(0)

\* A copy that is the deviate itself.
DuplicateSame(obj, id) == [obj |-> obj, id |-> id]

\* BaseDeviate.duplicate(): a new object (2) of the same _key; [obj, id]
Duplicate(obj, id) == [obj |-> [obj EXCEPT ![2] = obj[id]], id |-> 2]

MaxSeed == 2
MaxRndOps == 4

\* No deviate is in use.  ref[v] is the deviate of the variable v (0: none),
\* vals[v] the values drawn through v since the last duplicate, synced says
\* that no variable was reseeded, reset or discarded from since then.
NoRndCall == [op |-> "none", who |-> 0]

NoRnd ==
    [obj |-> [i \in DevId |-> NoKey], ref |-> <<0, 0>>, vals |-> <<<<>>, <<>>>>,
     synced |-> FALSE, call |-> NoRndCall, n |-> 0]

CanCallRnd(v) == rnd.n < MaxRndOps /\ rnd.ref[v] # 0

\* The call op through the variable v, which binds the _key of its deviate to
\* key and returns the values drawn.
RndApply(op, v, key, drawn, synced) ==
    /\ rnd' = [rnd EXCEPT !.obj[rnd.ref[v]] = key,
                          !.vals[v] = @ \o drawn,
                          !.synced = synced,
                          !.call = [op |-> op, who |-> v],
                          !.n = @ + 1]
    /\ UNCHANGED <<photVars, imgVars, gsVars, draw, balg, fn>>

\* copy = original.duplicate()
DoDuplicate ==
    /\ CanCallRnd(1)
    /\ rnd' = [rnd EXCEPT !.obj = Duplicate(rnd.obj, rnd.ref[1]).obj,
                          !.ref[2] = Duplicate(rnd.obj, rnd.ref[1]).id,
                          !.vals = <<<<>>, <<>>>>,
                          !.synced = TRUE,
                          !.call = [op |-> "duplicate", who |-> 1],
                          !.n = @ + 1]
    /\ UNCHANGED <<photVars, imgVars, gsVars, draw, balg, fn>>

\* v()
DoDraw ==
    \E v \in {1, 2} :
        /\ CanCallRnd(v)
        /\ RndApply("call", v, GenerateOne(rnd.obj[rnd.ref[v]]).key,
                    <<GenerateOne(rnd.obj[rnd.ref[v]]).val>>, rnd.synced)

\* v.generate(array) for an array of 2 elements
DoGenerate ==
    \E v \in {1, 2} :
        /\ CanCallRnd(v)
        /\ RndApply("generate", v, GenerateScan(rnd.obj[rnd.ref[v]], 2).key,
                    GenerateScan(rnd.obj[rnd.ref[v]], 2).vals, rnd.synced)

\* v.seed(s): a seed of 0 is replaced by secrets.randbelow(2**31)
DoSeed ==
    \E v \in {1, 2}, s \in 0..MaxSeed, r \in 0..MaxSeed :
        /\ CanCallRnd(v)
        /\ s # 0 => r = s
        /\ RndApply("seed", v, PRNGKey(r), <<>>, FALSE)

\* v.reset(w) for the deviate of another variable w
DoReset ==
    \E v \in {1, 2}, w \in {1, 2} :
        /\ CanCallRnd(v)
        /\ v # w
        /\ rnd.ref[w] # 0
        /\ RndApply("reset", v, rnd.obj[rnd.ref[w]], <<>>, FALSE)

\* v.discard(1)
DoDiscard ==
    \E v \in {1, 2} :
        /\ CanCallRnd(v)
        /\ RndApply("discard", v, Discard(rnd.obj[rnd.ref[v]], 1), <<>>, FALSE)

(***************************************************************************)
(* The evaluation of a function of the program on an argument.             *)
(***************************************************************************)
(***************************************************************************)
(* Deconvolution: the values in k space.  A value of the child is a        *)
(* complex number <<re, im>> in units of the threshold's unit; a value     *)
(* returned is <<0, 0, 0>> for 0.0 and <<1, re, im>> for 1 / (re + i im).  *)
(***************************************************************************)
\* Deconvolution._min_acc_kvalue
MinAccKValue(flux, acc) == flux * acc

\* 1.0 / (v[1] + i v[2])
Recip(v) == <<1, v[1], v[2]>>

\* Deconvolution._inv_min_acc_kvalue
InvMinAccKValue(flux, acc) == Recip(<<MinAccKValue(flux, acc), 0>>)

\* jnp.abs(v) < t and jnp.abs(v) > t for a complex v and a real t
AbsLess(v, t) == t > 0 /\ v[1] * v[1] + v[2] * v[2] < t * t
AbsGreater(v, t) == t < 0 \/ v[1] * v[1] + v[2] * v[2] > t * t

\* Deconvolution._kValue(pos), kval being orig_obj._kValue(pos)
DeconvKValue(flux, acc, kval) ==
    IF AbsLess(kval, MinAccKValue(flux, acc))
    THEN InvMinAccKValue(flux, acc)
    ELSE Recip(kval)

\* Deconvolution._drawKImage(image): the pixel whose value in the image of
\* orig_obj is kval and whose k has the square ksq, for maxk
DeconvDrawKImage(flux, acc, kval, ksq, maxk) ==
    IF ksq > maxk * maxk THEN <<0, 0, 0>>
    ELSE IF AbsGreater(kval, MinAccKValue(flux, acc)) THEN Recip(kval)
    ELSE InvMinAccKValue(flux, acc)

(***************************************************************************)
(* Convolution: the positive and the negative flux.  A child is the pair   *)
(* <<positive_flux, negative_flux>>.                                       *)
(***************************************************************************)
\* A step that multiplies like with like only.
CalcPnStepNoCross(pn, c) == <<pn[1] * c[1], pn[2] * c[2]>>

\* Convolution._calc_pn: the body of the loop
CalcPnStep(pn, c) == <<pn[1] * c[1] + pn[2] * c[2], pn[1] * c[2] + pn[2] * c[1]>>

RECURSIVE CalcPnFrom(_, _, _)
CalcPnFrom(objs, i, pn) ==
    IF i > Len(objs) THEN pn ELSE CalcPnFrom(objs, i + 1, CalcPnStep(pn, objs[i]))

\* Convolution._calc_pn for the children objs (at least one)
CalcPn(objs) == CalcPnFrom(objs, 2, objs[1])

\* The fluxes of the children: flux = positive_flux - negative_flux
ChildFluxes(objs) == [i \in 1..Len(objs) |-> objs[i][1] - objs[i][2]]

\* The orders of n children
Orders(n) == {f \in [1..n -> 1..n] : \A i, j \in 1..n : f[i] = f[j] => i = j}

Reordered(objs, f) == [i \in 1..Len(objs) |-> objs[f[i]]]

(***************************************************************************)
(* Pure functions: fn holds the arguments drawn at the start and the       *)
(* values that the calls made returned.                                    *)
(***************************************************************************)
NoFnArg == [f |-> "none", x |-> <<>>, objs |-> <<>>]
NoFn == [op |-> "none", arg |-> NoFnArg, out |-> <<>>]

MaxAcc == 2
MaxKVal == 2
MaxChildren == 3
MaxPnFlux == 2
MaxFFTIn == 200

\* <<flux, kvalue_accuracy, re, im, ksq, maxk>>
DeconvInputs ==
    {[f |-> "deconv", x |-> <<t[1], t[2], t[3], t[4], t[5], t[6]>>, objs |-> <<>>] :
        t \in {-1, 1, 2} \X (1..MaxAcc) \X ((0 - MaxKVal)..MaxKVal)
              \X ((0 - MaxKVal)..MaxKVal) \X {0, 1, 5} \X {1, 2}}

PnInputs ==
    {[f |-> "pn", x |-> <<>>, objs |-> o] :
        o \in UNION {[1..n -> (0..MaxPnFlux) \X (0..MaxPnFlux)] : n \in 1..MaxChildren}}

\* The sizes given to good_fft_size: the small ones and some around 2^17
\* and 3 * 2^16.
FFTSizeInputs ==
    {[f |-> "fft", x |-> <<n>>, objs |-> <<>>] :
        n \in (1..MaxFFTIn) \cup {131071, 131072, 131073, 196608, 196609}}

FnReturned(op) == \E i \in 1..Len(fn.out) : fn.out[i].op = op

FnApply(op, ord, val) ==
    /\ fn' = [fn EXCEPT !.op = op,
                        !.out = Append(@, [op |-> op, ord |-> ord, val |-> val])]
    /\ UNCHANGED <<photVars, imgVars, gsVars, draw, balg, rnd>>

\* Deconvolution._kValue(pos)
DoKValue ==
    /\ fn.arg.f = "deconv"
    /\ ~FnReturned("_kValue")
    /\ FnApply("_kValue", <<>>, DeconvKValue(fn.arg.x[1], fn.arg.x[2], <<fn.arg.x[3], fn.arg.x[4]>>))

\* Deconvolution._drawKImage(image), one pixel of the image
DoDrawKImage ==
    /\ fn.arg.f = "deconv"
    /\ ~FnReturned("_drawKImage")
    /\ FnApply("_drawKImage", <<>>,
               DeconvDrawKImage(fn.arg.x[1], fn.arg.x[2], <<fn.arg.x[3], fn.arg.x[4]>>,
                                fn.arg.x[5], fn.arg.x[6]))

\* Convolve(objs)._calc_pn()
DoCalcPn ==
    /\ fn.arg.f = "pn"
    /\ fn.out = <<>>
    /\ FnApply("_calc_pn", [i \in 1..Len(fn.arg.objs) |-> i], CalcPn(fn.arg.objs))

\* Convolve(the same children in the order f)._calc_pn()
DoCalcPnReordered ==
    /\ fn.arg.f = "pn"
    /\ Len(fn.out) = 1
    /\ \E f \in Orders(Len(fn.arg.objs)) :
          FnApply("_calc_pn", f, CalcPn(Reordered(fn.arg.objs, f)))

\* Image.good_fft_size(input_size)
DoGoodFFTSize ==
    /\ fn.arg.f = "fft"
    /\ fn.out = <<>>
    /\ FnApply("good_fft_size", <<>>, <<GoodFFTSize(fn.arg.x[1])>>)


(***************************************************************************)
(*                             Specifications                              *)
(***************************************************************************)
\* No drawImage call has been made.
DrawIdle == draw = NoDraw

\* No Bounds expression has been evaluated.
NoBalg ==
    [op |-> "none", a |-> BoundsI0, b |-> BoundsI0, f |-> <<2, 2>>, args |-> NoBArgs,
     out |-> BoundsI0, err |-> "ok"]
BoundsIdle == balg = NoBalg
RandIdle == rnd = NoRnd
FnIdle == fn = NoFn

\* No GSObject is in use.
GSIdle ==
    /\ gvar = [t \in {1, 2} |-> NoGS]
    /\ gcall = NoGSCall
    /\ gerr = "ok"
    /\ gwarn = <<>>
    /\ gval = NoVal
    /\ gops = 0

\* No Image is in use.
ImageIdle ==
    /\ heap = [i \in ObjId |-> NoObj]
    /\ ref = [t \in Slot |-> 0]
    /\ err = "ok"
    /\ call = NoCall
    /\ prov = [t \in Slot |-> NoProv]
    /\ nops = 0

\* No drawPhot call is in progress.
PhotIdle ==
    /\ pc = "idle"
    /\ Ntot = 0
    /\ maxNarg = NoneN
    /\ paSize = NoneN
    /\ gIsOne = TRUE
    /\ imDtype = "float32"
    /\ maxN = NoneN
    /\ Nleft = 0
    /\ resume = FALSE
    /\ photons = PhotonArray(0)
    /\ iters = 0
    /\ shots = <<>>

PhotDtypes == {"float32", "float64", "int32", "uint16", "complex128"}

InitPhot ==
    /\ pc = "start"
    /\ Ntot \in 0..MaxNtot
    /\ maxNarg \in {NoneN} \cup 1..MaxChunk
    /\ paSize \in {NoneN} \cup 1..MaxChunk
    /\ gIsOne \in BOOLEAN
    /\ imDtype \in PhotDtypes
    /\ maxN = NoneN
    /\ Nleft = 0
    /\ resume = FALSE
    /\ photons = PhotonArray(0)
    /\ iters = 0
    /\ shots = <<>>
    /\ ImageIdle
    /\ GSIdle
    /\ DrawIdle
    /\ BoundsIdle
    /\ RandIdle
    /\ FnIdle

NextPhot ==
    \/ DrawPhot
    \/ BodyFun
    \/ LoopExit

\* jax.lax.while_loop runs _body_fun for as long as _cond_fun holds.
SpecPhot == InitPhot /\ [][NextPhot]_vars /\ WF_vars(NextPhot)


\* The first variable holds an Image that has been constructed.
InitImage ==
    /\ PhotIdle
    /\ GSIdle
    /\ DrawIdle
    /\ BoundsIdle
    /\ RandIdle
    /\ FnIdle
    /\ \E a \in StartArgs :
          /\ ImageInit(a).err = "ok"
          /\ heap = [i \in ObjId |-> IF i = 1 THEN ImageInit(a).ret ELSE NoObj]
    /\ ref = [t \in Slot |-> IF t = 1 THEN 1 ELSE 0]
    /\ err = "ok"
    /\ call = NoCall
    /\ prov = [t \in Slot |-> IF t = 1 THEN [how |-> "Image", src |-> 0] ELSE NoProv]
    /\ nops = 0

NextImage ==
    \/ Construct
    \/ ConstructFromImage
    \/ DoSubImage
    \/ DoSetSubImage
    \/ DoCopyFrom
    \/ DoView
    \/ DoCopy
    \/ DoResize
    \/ DoShift
    \/ DoSetCenter
    \/ DoSetOrigin
    \/ DoSetValue
    \/ DoAddValue
    \/ DoFill
    \/ DoSetZero
    \/ DoInvertSelf
    \/ DoReplaceNegative
    \/ DoWrap
    \/ DoInPlace
    \/ DoBinary
    \/ DoCalculateFFT
    \/ DoCalculateInverseFFT

SpecImage == InitImage /\ [][NextImage]_vars

\* The first variable holds a GSObject; the second one is unbound or holds
\* the Deconvolution of the first.
InitConv ==
    /\ PhotIdle
    /\ ImageIdle
    /\ DrawIdle
    /\ BoundsIdle
    /\ RandIdle
    /\ FnIdle
    /\ gvar \in {[t \in {1, 2} |-> IF t = 1 THEN o ELSE NoGS] : o \in StartObjs}
               \cup {[t \in {1, 2} |->
                         IF t = 1 THEN o ELSE Deconvolve(o, "None", TRUE).obj] :
                      o \in StartObjs}
    /\ gcall = NoGSCall
    /\ gerr = "ok"
    /\ gwarn = <<>>
    /\ gval = NoVal
    /\ gops = 0

NextConv ==
    \/ DoConvolution
    \/ DoConvolve
    \/ DoDeconvolve
    \/ DoEq
    \/ DoFlux
    \/ DoCentroid

SpecConv == InitConv /\ [][NextConv]_vars

\* The Images drawImage is called with: with and without a wcs, with
\* undefined bounds, read-only.
DrawStartArgs ==
    {a \in SizeArgs : a.dtype \in {"None", "int16"} \/ a.hasiv} \cup BoundsArgs
    \cup {[InitArgs EXCEPT !.form = "bounds", !.bounds = BoundsI4(-3, 2, 0, 0),
                           !.hasb = TRUE, !.wcs = UnitScale]}

\* The first variable holds the caller's Image.
InitDraw ==
    /\ PhotIdle
    /\ GSIdle
    /\ BoundsIdle
    /\ RandIdle
    /\ FnIdle
    /\ DrawIdle
    /\ \E a \in DrawStartArgs :
          /\ ImageInit(a).err = "ok"
          /\ heap = [i \in ObjId |-> IF i = 1 THEN ImageInit(a).ret ELSE NoObj]
    /\ ref = [t \in Slot |-> IF t = 1 THEN 1 ELSE 0]
    /\ err = "ok"
    /\ call = NoCall
    /\ prov = [t \in Slot |-> IF t = 1 THEN [how |-> "Image", src |-> 0] ELSE NoProv]
    /\ nops = 0

NextDraw ==
    \/ DoDrawImage
    \/ DoDrawFFT
    \/ DoMakeKImage

SpecDraw == InitDraw /\ [][NextDraw]_vars

\* The two operands, or the arguments of BoundsI, are drawn; no operation is
\* applied yet.
InitBounds ==
    /\ PhotIdle
    /\ ImageIdle
    /\ GSIdle
    /\ DrawIdle
    /\ RandIdle
    /\ FnIdle
    /\ \/ \E a \in BoundsOperands, b \in BoundsOperands :
             balg = [NoBalg EXCEPT !.a = a, !.b = b]
       \/ \E c \in BArgsInputs : balg = [NoBalg EXCEPT !.args = c]

NextBounds ==
    \/ DoBoundsI
    \/ DoBoundsCopy
    \/ DoExpand
    \/ DoAnd
    \/ DoAdd

SpecBounds == InitBounds /\ [][NextBounds]_vars

\* A UniformDeviate(seed) is bound to the first variable.
InitRand ==
    /\ PhotIdle
    /\ ImageIdle
    /\ GSIdle
    /\ DrawIdle
    /\ BoundsIdle
    /\ FnIdle
    /\ \E s \in 1..MaxSeed :
          rnd = [NoRnd EXCEPT !.obj[1] = PRNGKey(s), !.ref[1] = 1]

NextRand ==
    \/ DoDuplicate
    \/ DoDraw
    \/ DoGenerate
    \/ DoSeed
    \/ DoReset
    \/ DoDiscard

SpecRand == InitRand /\ [][NextRand]_vars

InitFn ==
    /\ PhotIdle
    /\ ImageIdle
    /\ GSIdle
    /\ DrawIdle
    /\ BoundsIdle
    /\ RandIdle
    /\ \E a \in DeconvInputs \cup PnInputs \cup FFTSizeInputs :
          fn = [NoFn EXCEPT !.arg = a]

NextFn ==
    \/ DoKValue
    \/ DoDrawKImage
    \/ DoCalcPn
    \/ DoCalcPnReordered
    \/ DoGoodFFTSize

SpecFn == InitFn /\ [][NextFn]_vars

(***************************************************************************)
(*                                 Claims                                  *)
(***************************************************************************)
RECURSIVE SumThisN(_)
SumThisN(s) == IF s = <<>> THEN 0 ELSE s[1].thisN + SumThisN(Tail(s))

\* The effective resume flag of a call of sensor.accumulate.
EffResume(arg) == IF arg = "omitted" THEN SensorDefaultResume ELSE arg = "true"

Chunked == maxN # NoneN

(***************************************************************************)
(* C1: for Ntot >= 0 and a chunk capacity maxN >= 1 the while loop of      *)
(* _draw_phot_while_loop terminates; when it has stopped the remaining     *)
(* count Nleft is 0 and _body_fun has run ceil(Ntot/maxN) times (never,    *)
(* when Ntot = 0); while Nleft > 0 it has not stopped.                     *)
(***************************************************************************)
C1_LoopTerminates ==
    /\ [](pc = "loop" => <>(pc = "done"))
    /\ []((pc = "done" /\ Chunked) =>
            (Nleft = 0 /\ iters = CeilDiv(Ntot, maxN)))
    /\ []((pc = "loop" /\ Nleft = 0) => iters = CeilDiv(Ntot, maxN))

C1_Witness ==
    pc = "done" /\ Chunked /\ iters = 3 /\ Ntot % maxN # 0

(***************************************************************************)
(* C2 (as stated): in every iteration thisN = min(maxN, Nleft) with        *)
(* 1 <= thisN <= maxN, Nleft plus the chunks drawn so far equals Ntot, and *)
(* at exit the chunk counts sum to Ntot and the chunk weights thisN/Ntot   *)
(* sum to 1.  The weights are the fractions thisN/Ntot; their exact sum    *)
(* over the chunks drawn is SumThisN/Ntot, and 0 when no chunk was drawn.  *)
(***************************************************************************)
ChunkInvariant ==
    /\ Nleft + SumThisN(shots) = Ntot
    /\ \A i \in 1..Len(shots) :
          /\ shots[i].thisN = Min2(maxN, shots[i].nleft)
          /\ 1 <= shots[i].thisN
          /\ shots[i].thisN <= maxN
          /\ shots[i].nleft = Ntot - SumThisN(SubSeq(shots, 1, i - 1))

WeightsSumToOne == Len(shots) > 0 /\ Ntot # 0 /\ SumThisN(shots) = Ntot

C2_Original ==
    Chunked => /\ ChunkInvariant
               /\ pc = "done" => (SumThisN(shots) = Ntot /\ WeightsSumToOne)

\* C2 (amended): the same, the weights summing to 1 whenever Ntot >= 1; with
\* Ntot = 0 the loop draws no chunk and the weights sum to 0.
C2_ChunkSums ==
    Chunked => /\ ChunkInvariant
               /\ pc = "done" =>
                    /\ SumThisN(shots) = Ntot
                    /\ Ntot >= 1 => WeightsSumToOne
                    /\ Ntot = 0 => shots = <<>>

C2_Witness ==
    pc = "done" /\ Chunked /\ Len(shots) = 3 /\ shots[3].thisN < maxN

(***************************************************************************)
(* C3: with a chunk capacity in force every iteration shoots into a buffer *)
(* of exactly maxN entries, whatever remains, and keeps thisN <= maxN of   *)
(* them; the capacity of the loop's buffer never changes.                  *)
(***************************************************************************)
C3_FixedCapacity ==
    (Chunked /\ pc \in {"loop", "done"}) =>
        /\ photons.cap = maxN
        /\ photons.num_keep <= photons.cap
        /\ \A i \in 1..Len(shots) :
              /\ shots[i].cap = maxN
              /\ shots[i].keep = shots[i].thisN
              /\ shots[i].keep <= shots[i].cap

C3_Witness ==
    pc = "loop" /\ Len(shots) = 2 /\ Nleft > 0 /\ Nleft < maxN

(***************************************************************************)
(* C4 (as stated): in a multi-chunk draw sensor.accumulate is called with  *)
(* resume = false for the first chunk and resume = true for every later    *)
(* chunk, whatever the dtype of the image.                                 *)
(***************************************************************************)
C4_Original ==
    Chunked => \A i \in 1..Len(shots) : EffResume(shots[i].resume) = (i > 1)

\* C4 (amended): that holds for float32 and float64 images; for every other
\* dtype each chunk is accumulated into a fresh temporary ImageD without a
\* resume argument, and the loop's resume flag stays false.
C4_ResumeByDtype ==
    Chunked =>
        IF imDtype \in FloatDtypes
        THEN \A i \in 1..Len(shots) :
                /\ ~shots[i].temp
                /\ shots[i].resume = (IF i > 1 THEN "true" ELSE "false")
        ELSE /\ resume = FALSE
             /\ \A i \in 1..Len(shots) :
                  shots[i].temp /\ shots[i].resume = "omitted"

C4_Witness ==
    pc = "done" /\ Chunked /\ Len(shots) = 3 /\ imDtype = "float32"
        /\ shots[3].resume = "true"

(***************************************************************************)
(* Claims about Image.  DerefNext(t) is the object of slot t after the     *)
(* step; Called(n, t) says that the step is the call n on the object of    *)
(* slot t.                                                                 *)
(***************************************************************************)
DerefNext(t) == IF ref'[t] = 0 THEN NoObj ELSE heap'[ref'[t]]

Called(n, t) == nops' = nops + 1 /\ call'.name = n /\ call'.slot = t

MutatingOps ==
    {"setValue", "addValue", "fill", "setZero", "resize", "setSubImage", "copyFrom",
     "invertSelf", "replaceNegative", "wrap"} \cup InPlaceOps

(***************************************************************************)
(* C5 (as stated): every mutating operation applied to an image created    *)
(* with make_const=True fails with an error and leaves the image's array   *)
(* and bounds unchanged.                                                   *)
(***************************************************************************)
C5_Original ==
    [][\A t \in Slot, n \in MutatingOps :
          (Called(n, t) /\ Deref(t).isconst) =>
              /\ err' # "ok"
              /\ DerefNext(t).array = Deref(t).array
              /\ DerefNext(t).bounds = Deref(t).bounds]_vars

(***************************************************************************)
(* C6: subImage(b) on an image with defined bounds returns a sub-image     *)
(* exactly when every pixel of a defined b is a pixel of the image, and    *)
(* the sub-image then has the bounds b and the image's values on b; for    *)
(* every other b it raises GalSimBoundsError; the image is unchanged       *)
(* either way.                                                             *)
(***************************************************************************)
PixelsOf(b) ==
    IF b.def THEN (b.xmin .. b.xmax) \X (b.ymin .. b.ymax) ELSE {}

FullyInside(b, outer) == b.def /\ PixelsOf(b) \subseteq PixelsOf(outer)

PixelAt(im, q) == im.array.data[<<q[2] - im.bounds.ymin, q[1] - im.bounds.xmin>>]

C6_SubImageIncluded ==
    [][\A t \in Slot :
          (Called("subImage", t) /\ Deref(t).bounds.def) =>
              /\ (err' = "ok") = FullyInside(call'.b, Deref(t).bounds)
              /\ err' # "ok" => (err' = "GalSimBoundsError" /\ heap' = heap /\ ref' = ref)
              /\ call'.dst # t => DerefNext(t) = Deref(t)
              /\ err' = "ok" =>
                    /\ DerefNext(call'.dst).bounds = call'.b
                    /\ DerefNext(call'.dst).array.shape =
                          <<call'.b.ymax - call'.b.ymin + 1,
                            call'.b.xmax - call'.b.xmin + 1>>
                    /\ \A q \in PixelsOf(call'.b) :
                          PixelAt(DerefNext(call'.dst), q) = PixelAt(Deref(t), q)]_vars

\* A sub-image that is partly outside has just been refused.
C6_Witness ==
    /\ call.name = "subImage"
    /\ err = "GalSimBoundsError"
    /\ call.b = BoundsI4(2, 3, 1, 1)
    /\ Deref(call.slot).bounds = BoundsI4(1, 2, 1, 1)

(***************************************************************************)
(* C7 (as stated): every Image has an array whose shape is                 *)
(* bounds.numpyShape() when its bounds are defined, and a 1x1 placeholder  *)
(* array when its bounds are undefined or of zero area.                    *)
(***************************************************************************)
ShapeConsistent(im) ==
    IF im.bounds.def
    THEN im.array.shape = <<im.bounds.ymax - im.bounds.ymin + 1,
                            im.bounds.xmax - im.bounds.xmin + 1>>
    ELSE im.array.shape = <<1, 1>>

C7_Original == \A i \in ObjId : heap[i].live => ShapeConsistent(heap[i])

(***************************************************************************)
(* C8 (as stated): constructing an Image with a requested dtype, or from   *)
(* an array whose element type, is not one of the eight valid types fails; *)
(* no other element type is accepted or converted.                         *)
(***************************************************************************)
EightDtypes ==
    {"int16", "int32", "uint16", "uint32", "float32", "float64", "complex64",
     "complex128"}

DecidingDtype(ar) == IF ar.dtype # "None" THEN ar.dtype ELSE ar.adt

AliasTarget(d) ==
    IF d \in {"pyint", "int64"} THEN "int32"
    ELSE IF d = "pyfloat" THEN "float64"
    ELSE IF d = "pycomplex" THEN "complex128" ELSE d

C9_Original == \A i \in ObjId : heap[i].live => heap[i].array.dt = heap[i].dtype

(***************************************************************************)
(* C10: an Image returned by view(), subImage() or copy() does not alias   *)
(* its source: a call that mutates one of the two leaves the array, the    *)
(* bounds and the wcs of the other unchanged.                              *)
(***************************************************************************)
DerivedBy == {"view", "subImage", "copy"}

Mutators == MutatingOps \cup {"shift", "setCenter", "setOrigin"}

SameImage(t) ==
    /\ DerefNext(t).array = Deref(t).array
    /\ DerefNext(t).bounds = Deref(t).bounds
    /\ DerefNext(t).wcs = Deref(t).wcs

C10_NoAlias ==
    [][\A t \in Slot :
          (prov[t].how \in DerivedBy /\ prov[t].src # 0) =>
              \A n \in Mutators :
                  /\ (Called(n, t) /\ call'.dst = t) => SameImage(prov[t].src)
                  /\ (Called(n, prov[t].src) /\ call'.dst = prov[t].src)
                        => SameImage(t)]_vars

\* The source of a view has just been changed by setValue, and the view has
\* kept the old pixels.
C10_Witness ==
    /\ prov[2].how = "view" /\ prov[2].src = 1
    /\ call.name = "setValue" /\ call.slot = 1 /\ err = "ok"
    /\ Deref(1).array.shape = Deref(2).array.shape
    /\ Deref(1).array.data # Deref(2).array.data

(***************************************************************************)
(* Claims on Convolution and Deconvolution (SpecConv).                     *)
(***************************************************************************)
\* The call just made is a construction of a Convolution.
ConvCalled == gops' = gops + 1 /\ gcall'.name \in {"Convolution", "Convolve"}

(***************************************************************************)
(* C14 (as stated): constructing a Convolution with zero child objects,    *)
(* with no positional argument or with an empty list, through              *)
(* Convolution(...) or Convolve(...), for every real_space setting, fails  *)
(* with TypeError and produces no object.                                  *)
(***************************************************************************)
C14_Original ==
    [][(ConvCalled /\ Len(gcall'.args.objs) = 0) =>
          (gerr' = "TypeError" /\ gvar' = gvar)]_vars

(***************************************************************************)
(* C15 (as stated): constructing a Convolution with real_space=True always *)
(* fails with NotImplementedError, for any number of children, analytic in *)
(* real space or not, and produces no object.                              *)
(***************************************************************************)
C15_Original ==
    [][(ConvCalled /\ gcall'.rs = "True") =>
          (gerr' = "NotImplementedError" /\ gvar' = gvar)]_vars

\* C15 (amended): constructing a Convolution with real_space=True from one
\* or two children that are all analytic in real space fails with
\* NotImplementedError and produces no object.  With more than two children,
\* or with a child that is not analytic in real space, a warning is emitted
\* and the request is switched to the DFT method: no NotImplementedError is
\* raised, and the Convolution produced has real_space == False.
AllAnalyticX(objs) == \A i \in 1..Len(objs) : IsAnalyticX(objs[i])

C15_RealSpaceTrue ==
    [][(ConvCalled /\ gcall'.rs = "True" /\ Len(gcall'.args.objs) >= 1) =>
          LET objs == gcall'.args.objs
          IN  IF Len(objs) <= 2 /\ AllAnalyticX(objs)
              THEN gerr' = "NotImplementedError" /\ gvar' = gvar
              ELSE /\ gerr' = "ok"
                   /\ gwarn' # <<>>
                   /\ gwarn'[Len(gwarn')] =
                         (IF Len(objs) > 2 THEN "more_than_2" ELSE "not_analytic")
                   /\ gvar'[2].kind = "Convolution"
                   /\ gvar'[2].real = FALSE
                   /\ Len(gvar'[2].objs) = Len(objs)]_vars

\* A real-space convolution of three objects has been asked for and an FFT
\* Convolution has been made.
C15_Witness ==
    /\ gcall.name = "Convolution" /\ gcall.rs = "True"
    /\ Len(gcall.args.objs) = 3
    /\ gerr = "ok" /\ gwarn = <<"more_than_2">>
    /\ gvar[2].kind = "Convolution" /\ ~gvar[2].real

(***************************************************************************)
(* C16 (as stated): constructing a Convolution with real_space=None from   *)
(* one or two children that all have hard edges emits a warning and yields *)
(* an FFT Convolution (real_space == False); it never raises.              *)
(***************************************************************************)
C16_Original ==
    [][(ConvCalled /\ gcall'.rs = "None"
          /\ Len(gcall'.args.objs) \in {1, 2} /\ HardEdge(gcall'.args.objs)) =>
          /\ gerr' = "ok"
          /\ gwarn' # <<>>
          /\ gvar'[2].kind = "Convolution"
          /\ gvar'[2].real = FALSE]_vars

(***************************************************************************)
(* C17: for every non-empty child list, Convolution.flux is the product of *)
(* the children's fluxes and Convolution.centroid is the component-wise    *)
(* sum of the children's centroids.                                        *)
(***************************************************************************)
\* The Convolution whose property has just been read.
ReadObj == gvar[gcall.src]

ChildFlux(i) == Flux(ReadObj.objs[i])
ChildCen(i) == Centroid(ReadObj.objs[i])

C17_FluxCentroid ==
    (gcall.name \in {"flux", "centroid"} /\ ReadObj.kind = "Convolution"
       /\ Len(ReadObj.objs) >= 1) =>
       LET n == Len(ReadObj.objs)
       IN  /\ gerr = "ok"
           /\ gcall.name = "flux" =>
                 /\ gval.t = "num"
                 /\ n = 1 => gval.n = ChildFlux(1)
                 /\ n = 2 => gval.n = ChildFlux(1) * ChildFlux(2)
                 /\ n = 3 => gval.n = ChildFlux(1) * ChildFlux(2) * ChildFlux(3)
           /\ gcall.name = "centroid" =>
                 /\ gval.t = "pos"
                 /\ \A k \in {1, 2} :
                       /\ n = 1 => gval.p[k] = ChildCen(1)[k]
                       /\ n = 2 => gval.p[k] = ChildCen(1)[k] + ChildCen(2)[k]
                       /\ n = 3 => gval.p[k] =
                                     ChildCen(1)[k] + ChildCen(2)[k] + ChildCen(3)[k]

\* The flux of the Convolution of two Box objects (flux 3 each) has been
\* read and is 9.
C17_Witness ==
    /\ gcall.name = "flux" /\ gerr = "ok"
    /\ ReadObj.kind = "Convolution" /\ Len(ReadObj.objs) = 2
    /\ ChildFlux(1) = 3 /\ ChildFlux(2) = 3
    /\ gval.n = 9

(***************************************************************************)
(* C18 (as stated): Deconvolve(Deconvolve(obj)) compares equal to obj, in  *)
(* either operand order, when the gsparams agree.                          *)
(***************************************************************************)
\* a has the structure of Deconvolve(Deconvolve(b)) with b's gsparams.
IsDoubleDeconvolution(a, b) ==
    /\ a.kind = "Deconvolution"
    /\ a.objs[1].kind = "Deconvolution"
    /\ a.objs[1].objs[1] = b
    /\ a.gsp = b.gsp
    /\ a.objs[1].gsp = b.gsp

C18_Original ==
    (gcall.name = "=="
       /\ \/ IsDoubleDeconvolution(gvar[gcall.src], gvar[gcall.rhs])
          \/ IsDoubleDeconvolution(gvar[gcall.rhs], gvar[gcall.src]))
    => gval.b = TRUE

(***************************************************************************)
(* Claims about drawImage and drawFFT_makeKImage.  DrawCalled says that    *)
(* the step is a call of drawImage; the caller's image is the object of    *)
(* the first variable.                                                     *)
(***************************************************************************)
DrawCalled == draw.name = "none" /\ draw'.name = "drawImage"

SizeGiven(a) == a.nx # NoneN \/ a.ny # NoneN

\* The argument combinations that are errors, im being the caller's image.
ArgCombinationError(a, im) ==
    \/ a.hasimg /\ (a.hasb \/ SizeGiven(a))
    \/ a.hasb /\ SizeGiven(a)
    \/ (a.nx = NoneN) # (a.ny = NoneN)
    \/ a.add /\ ~(a.hasimg /\ IsDefined(im.bounds))
    \/ a.haswcs /\ a.hasscale
    \/ a.method # "phot" /\ ~a.sensor /\ a.phot # {}

\* C11: every argument-combination error of drawImage is raised as an
\* incompatible-values error before any other step runs: the caller's image
\* (array, bounds, wcs) is unchanged when the call fails.
C11_Original ==
    [][(DrawCalled /\ draw'.args.method \in Methods
        /\ ArgCombinationError(draw'.args, Deref(1)))
       => /\ draw'.err = "GalSimIncompatibleValuesError"
          /\ heap' = heap]_vars

\* C12: when drawImage completes successfully on a caller's image of defined
\* bounds, the bounds of the image are those before the call and its wcs is
\* the wcs resolved from (scale, wcs, image.wcs).
C12_BoundsWcsRestored ==
    [][(DrawCalled /\ draw'.args.hasimg /\ IsDefined(Deref(1).bounds)
        /\ draw'.err = "ok")
       => /\ DerefNext(1).bounds = Deref(1).bounds
          /\ DerefNext(1).wcs = DetermineWcs(draw'.args, Deref(1)).wcs]_vars

\* A caller's image whose center is not (0, 0) was drawn on with a scale
\* that is not 1.
C12_Witness ==
    /\ draw.name = "drawImage"
    /\ draw.err = "ok"
    /\ draw.args.hasimg
    /\ ~draw.args.setup_only
    /\ draw.args.method = "fft"
    /\ Deref(1).bounds = BoundsI4(1, 2, 1, 1)
    /\ Deref(1).wcs = PixelScale(MkScale(2, 1, 0))
    /\ \E p \in DOMAIN Deref(1).array.data : Deref(1).array.data[p] = 1

\* The other arguments of the call raise no incompatible-values error.
OtherArgsCompatible(a) ==
    /\ a.method \in Methods
    /\ ~a.hasimg /\ ~a.hasb /\ ~SizeGiven(a) /\ ~a.add
    /\ ~(a.haswcs /\ a.hasscale)

PhotonArgsRejected == draw.err = "GalSimIncompatibleValuesError"

\* C13: a photon-only argument is rejected with an incompatible-values error
\* if and only if the method is not 'phot' and no sensor is given.
C13_Original ==
    (draw.name = "drawImage" /\ OtherArgsCompatible(draw.args)
     /\ draw.args.phot # {})
    => (PhotonArgsRejected <=> (draw.args.method # "phot" /\ ~draw.args.sensor))

\* C13: n_photons and poisson_flux are rejected if and only if the method is
\* not 'phot', with a sensor or without; rng, maxN and save_photons are
\* rejected if and only if the method is not 'phot' and no sensor is given;
\* with the method 'phot' only save_photons together with maxN is rejected.
C13_PhotonArgs ==
    (draw.name = "drawImage" /\ OtherArgsCompatible(draw.args)
     /\ draw.args.phot # {})
    => (PhotonArgsRejected <=>
           IF draw.args.method = "phot"
           THEN {"save_photons", "maxN"} \subseteq draw.args.phot
           ELSE \/ draw.args.phot \cap {"n_photons", "poisson_flux"} # {}
                \/ ~draw.args.sensor)

\* n_photons is rejected for the method 'fft' although a sensor is given.
C13_Witness ==
    /\ draw.name = "drawImage"
    /\ OtherArgsCompatible(draw.args)
    /\ draw.args.method = "fft"
    /\ draw.args.sensor
    /\ draw.args.phot = {"n_photons"}
    /\ PhotonArgsRejected

\* C19: drawFFT_makeKImage returns no k-space image of a size Nk above
\* maximum_fft_size: when the size it needs is larger it raises the FFT-size
\* error, and the sizes returned satisfy Nk >= N.
C19_Original ==
    draw.name = "drawFFT_makeKImage"
    => /\ draw.k.err = "ok"
          => /\ draw.k.Nk <= draw.args.fft.maxfft
             /\ draw.k.Nk >= draw.k.N
       /\ ChosenNk(draw.args.fft, draw.k.N, draw.kin.s) > draw.args.fft.maxfft
          => draw.k.err = "GalSimFFTSizeError"

(***************************************************************************)
(* Claims about the intersection and the union of bounds.                  *)
(***************************************************************************)
\* The bounds a and b have a pixel in common.
Overlap(a, b) ==
    \E x \in Coords, y \in Coords : IncludesPos(a, x, y) /\ IncludesPos(b, x, y)

\* C20: a & b is undefined whenever a or b is undefined and whenever a and b
\* do not overlap; a + b equals a when b is undefined and equals b when a is
\* undefined.
C20_UndefinedBounds ==
    /\ balg.op = "and"
       => ((~IsDefined(balg.a) \/ ~IsDefined(balg.b) \/ ~Overlap(balg.a, balg.b))
           => ~IsDefined(balg.out))
    /\ balg.op = "add"
       => /\ ~IsDefined(balg.b) => balg.out = balg.a
          /\ ~IsDefined(balg.a) => BoundsEq(balg.out, balg.b)

\* The union of an undefined bounds that has fields and of a defined one.
C20_Witness ==
    /\ balg.op = "add"
    /\ balg.a = BoundsI4(2, 1, 0, 0)
    /\ balg.b = BoundsI4(0, 1, 0, 1)
    /\ balg.out = balg.b

\* A bounds that is defined with ordered extrema, or undefined with all of
\* its fields 0.
Canonical(b) ==
    \/ IsDefined(b) /\ b.xmin <= b.xmax /\ b.ymin <= b.ymax
    \/ ~IsDefined(b) /\ b.xmin = 0 /\ b.xmax = 0 /\ b.ymin = 0 /\ b.ymax = 0

\* C21: every bounds produced by a form of the constructor or returned by
\* intersection, union or expand is either defined with xmin <= xmax and
\* ymin <= ymax, or undefined with xmin = xmax = ymin = ymax = 0.
C21_Original ==
    (balg.op \in {"init", "copy", "expand", "and", "add"} /\ balg.err = "ok")
    => Canonical(balg.out)

\* C22: intersection with any bounds, expand by any factor and
\* copy-construction yield an undefined bounds when applied to an undefined
\* bounds.
C22_Original ==
    (balg.op \in {"and", "expand", "copy"} /\ ~IsDefined(balg.a))
    => (balg.err = "ok" /\ ~IsDefined(balg.out))

\* The extrema given to BoundsI as four numbers.
GivenExtrema == balg.op = "init" /\ balg.args.form \in {"four", "kw"}

\* expand gives integral extrema to BoundsI, which keeps them.
ExpandIntegral ==
    balg.op = "expand"
    => /\ balg.err = "ok"
       /\ \A i \in 1..4 : ~NonIntegral(balg.args.x[i])
       /\ 2 * balg.out.xmin = balg.args.x[1].v2
       /\ 2 * balg.out.xmax = balg.args.x[2].v2
       /\ 2 * balg.out.ymin = balg.args.x[3].v2
       /\ 2 * balg.out.ymax = balg.args.x[4].v2

\* C23: the construction of a BoundsI from an extremum that is a
\* non-integral number fails with an error, and expand on a BoundsI rounds
\* the growth of the border up: its result has integral extrema.
C23_Original ==
    /\ (GivenExtrema /\ \E i \in 1..4 : NonIntegral(balg.args.x[i]))
       => balg.err = "TypeError"
    /\ ExpandIntegral

\* C23: when the four extrema are Python numbers the construction fails with
\* a TypeError if and only if one of them is not integral; when one of them
\* is a JAX array the test is not made; expand on a BoundsI rounds the growth
\* of the border up: its result has integral extrema.
C23_IntegralExtrema ==
    /\ (GivenExtrema /\ AllPython(balg.args.x))
       => (balg.err = "TypeError" <=> \E i \in 1..4 : NonIntegral(balg.args.x[i]))
    /\ (GivenExtrema /\ ~AllPython(balg.args.x)) => balg.err = "ok"
    /\ ExpandIntegral

\* BoundsI(0.5, 1, 2, 1) has failed.
C23_Witness ==
    /\ GivenExtrema
    /\ balg.args.x = <<Num(1, FALSE), PyInt(1), PyInt(2), PyInt(1)>>
    /\ balg.err = "TypeError"

(***************************************************************************)
(* Claims about BaseDeviate.                                               *)
(***************************************************************************)
\* The other variable.
OtherDev(v) == 3 - v

\* The _key of the deviate of the variable v, before and after the step.
KeyOf(v) == rnd.obj[rnd.ref[v]]
KeyOfNext(v) == rnd'.obj[rnd'.ref[v]]

\* The values drawn through the two variables agree as far as both have
\* drawn.
SameStream(r) ==
    \A k \in 1..Min2(Len(r.vals[1]), Len(r.vals[2])) : r.vals[1][k] = r.vals[2][k]

\* C24: duplicate() returns an independent copy with an identical future
\* stream: under any interleaving of draws on the original and on the copy
\* the k-th value drawn from each is the same, and a call on one (a draw, a
\* seed, a reset, a discard) never changes the state of the other.
C24_DuplicateStream ==
    [][/\ rnd'.synced => SameStream(rnd')
       /\ \A v \in {1, 2} :
            (rnd'.call.who = v /\ rnd'.call.op # "duplicate" /\ rnd.ref[OtherDev(v)] # 0)
            => KeyOfNext(OtherDev(v)) = KeyOf(OtherDev(v))]_vars

\* The original and the copy have each drawn two values, the copy after the
\* original had drawn its first.
C24_Witness ==
    /\ rnd.synced
    /\ rnd.ref[2] # 0
    /\ Len(rnd.vals[1]) = 1
    /\ Len(rnd.vals[2]) = 2
    /\ rnd.call = [op |-> "generate", who |-> 2]

(***************************************************************************)
(* Claims about drawFFT and about a drawImage whose rendering fails.       *)
(***************************************************************************)
\* drawFFT was called on the caller's image and reached drawFFT_finish.
DrawFFTFinished == draw.name = "drawFFT" /\ draw.stage = "finish"

\* C25: drawFFT_finish folds the k-space image into
\* BoundsI(0, N/2, -N/2, N/2-1) with the non-Hermitian wrap, never with the
\* Hermitian-x or the Hermitian-y one.
C25_Original ==
    DrawFFTFinished
    => /\ draw.fin.bounds =
             BoundsI4(0, draw.k.N \div 2, (0 - draw.k.N) \div 2, draw.k.N \div 2 - 1)
       /\ draw.fin.mode = "wrap_nonhermitian"

\* C25 as the code has it: drawFFT_finish folds the k-space image into
\* BoundsI(0, N/2, -N/2, N/2-1) with the Hermitian-x wrap, never with the
\* non-Hermitian or the Hermitian-y one.
C25_HermitianXWrap ==
    DrawFFTFinished
    => /\ draw.fin.bounds =
             BoundsI4(0, draw.k.N \div 2, (0 - draw.k.N) \div 2, draw.k.N \div 2 - 1)
       /\ draw.fin.mode = "wrap_hermitian_x"

\* A k-space image of size 8 was folded into the bounds of size 4.
C25_Witness ==
    /\ DrawFFTFinished
    /\ draw.err = "ok"
    /\ draw.k.Nk = 8
    /\ draw.fin.bounds = BoundsI4(0, 2, -2, 1)
    /\ draw.fin.mode # "none"

\* C29: for every image of defined bounds and PixelScale wcs given to
\* drawFFT, the real image of size N includes the bounds of the image and the
\* bounds wrapped onto are inside those of the k-space image, so that drawFFT
\* raises no bounds error, whether the gsparams fix the size or not.
C29_Original ==
    (DrawFFTFinished /\ IsPixelScale(Deref(1).wcs))
    => /\ IncludesBounds(FinishReal(draw.k.N), Deref(1).bounds)
       /\ IncludesBounds(draw.k.bounds, draw.fin.bounds)
       /\ draw.err # "GalSimBoundsError"

\* C30: when the rendering step of drawImage fails after the image was set
\* up, the caller's image keeps the bounds, the wcs and the pixel values it
\* had before the call.
C30_Original ==
    [][(DrawCalled /\ draw'.args.hasimg /\ draw'.stage = "render")
       => /\ DerefNext(1).bounds = Deref(1).bounds
          /\ DerefNext(1).wcs = Deref(1).wcs
          /\ DerefNext(1).array = Deref(1).array]_vars

(***************************************************************************)
(* Claims about the pure functions.                                        *)
(***************************************************************************)
\* The value that the call op returned.
FnValue(op) == fn.out[CHOOSE i \in 1..Len(fn.out) : fn.out[i].op = op].val

\* C26: the value of a Deconvolution in k space is 1 / childK(k), except
\* where |childK(k)| < flux * kvalue_accuracy, where it is the reciprocal of
\* that threshold; _kValue and, within maxk, _drawKImage give this same
\* value at every k, also when |childK(k)| is the threshold and when
\* childK(k) is negative.
C26_Original ==
    (/\ fn.arg.f = "deconv"
     /\ FnReturned("_kValue")
     /\ FnReturned("_drawKImage")
     /\ fn.arg.x[5] <= fn.arg.x[6] * fn.arg.x[6])
    => /\ FnValue("_kValue") = FnValue("_drawKImage")
       /\ FnValue("_kValue") =
             IF AbsLess(<<fn.arg.x[3], fn.arg.x[4]>>, fn.arg.x[1] * fn.arg.x[2])
             THEN <<1, fn.arg.x[1] * fn.arg.x[2], 0>>
             ELSE <<1, fn.arg.x[3], fn.arg.x[4]>>

\* C27: for a Convolution of one or more children the positive flux minus
\* the negative flux that _calc_pn computes is the product of the
\* children's (positive - negative), which is Convolution.flux, and the
\* result does not depend on the order of the children.
C27_PnProduct ==
    fn.arg.f = "pn"
    => /\ \A i \in 1..Len(fn.out) :
             fn.out[i].val[1] - fn.out[i].val[2]
                = ConvolutionFlux(ChildFluxes(fn.arg.objs))
       /\ \A i, j \in 1..Len(fn.out) : fn.out[i].val = fn.out[j].val

\* Three children, the first with a positive and a negative flux, taken in
\* two different orders, with a negative total flux.
C27_Witness ==
    /\ fn.arg.f = "pn"
    /\ Len(fn.arg.objs) = 3
    /\ fn.arg.objs[1] = <<2, 1>>
    /\ fn.arg.objs[2] # fn.arg.objs[3]
    /\ Len(fn.out) = 2
    /\ fn.out[2].ord = <<3, 1, 2>>
    /\ fn.out[2].val[1] < fn.out[2].val[2]
    /\ fn.out[2].val[1] > 0

\* C28: for every n >= 1, good_fft_size(n) is the least r >= n of the form
\* 2^k or 3 * 2^k with k >= 1; it is at least n, even and at least 2.
C28_Original ==
    (fn.arg.f = "fft" /\ FnReturned("good_fft_size"))
    => /\ FnValue("good_fft_size")[1] \in GoodFFTSizes
       /\ FnValue("good_fft_size")[1] >= fn.arg.x[1]
       /\ \A h \in GoodFFTSizes :
             h >= fn.arg.x[1] => FnValue("good_fft_size")[1] <= h
       /\ FnValue("good_fft_size")[1] % 2 = 0
       /\ FnValue("good_fft_size")[1] >= 2

====
